---- MODULE Spec2Model ----
(***************************************************************************)
(* The broker's scheduler (meticulous-broker/src/scheduler_task/            *)
(* scheduler.rs) as a state machine: one action per inbound Message, each   *)
(* action the whole handler including the trailing dispatch loop.           *)
(*                                                                          *)
(* The artifact cache (trait SchedulerCache) and the worker heap            *)
(* (meticulous_util::heap) are used by the scheduler but implemented        *)
(* elsewhere; they are modelled here from their written description.        *)
(***************************************************************************)
EXTENDS Integers, Sequences, FiniteSets, TLC

(***************************************************************************)
(* Bounds of the model.                                                     *)
(***************************************************************************)
MaxClients == 2
MaxCeid == 2
MaxWorkers == 2
MaxSlots == 2
MaxDigest == 2
MaxResult == 2
MaxJobs == 3
MaxReleases == 1
MaxDispatchJobs == 7
MaxLiveJobs == 4
MaxStreamLen == 4
MaxInlineLimit == 4
MaxByte == 2
MaxStringLen == 1
MaxArguments == 2
MaxPid == 2
MaxExitCode == 8
MaxSignal == 2
WordBits == 6

\* usize, scaled to WordBits bits: "a * b" wraps in a release build and
\* panics in a debug build when the product does not fit
UsizeMax == 2^WordBits - 1
UsizeMul(a, b) == (a * b) % (UsizeMax + 1)
UsizeMulOverflows(a, b) == a * b > UsizeMax

ClientIds == 1..MaxClients
Ceids == 1..MaxCeid
WorkerIds == 1..MaxWorkers
SlotCounts == 1..MaxSlots
Digests == 1..MaxDigest
Results == 1..MaxResult
FetcherIds == {1}

\* ExecutionId(ClientId, ClientExecutionId)
DispatchCeids == 1..MaxDispatchJobs
ExecutionIds == ClientIds \X (Ceids \cup DispatchCeids)

\* ExecutionDetails: only the layer list is interpreted by the scheduler,
\* program and arguments are carried through unchanged.
AllDetails == {<<>>, <<1>>, <<1, 2>>, <<1, 1>>}

(***************************************************************************)
(* HashMap / HashSet / Vec helpers.                                         *)
(***************************************************************************)
MapInsert(m, k, v) == [x \in (DOMAIN m) \cup {k} |-> IF x = k THEN v ELSE m[x]]

MapRemove(m, k) == [x \in (DOMAIN m) \ {k} |-> m[x]]

EmptyMap == [x \in {} |-> 0]

Range(seq) == {seq[i] : i \in 1..Len(seq)}

\* VecDeque::retain / Vec::retain
RECURSIVE Retain(_, _)
Retain(seq, keep) ==
    IF seq = <<>> THEN <<>>
    ELSE IF Head(seq) \in keep THEN <<Head(seq)>> \o Retain(Tail(seq), keep)
         ELSE Retain(Tail(seq), keep)

\* derive(Ord) on ExecutionId: lexicographic on (ClientId, ClientExecutionId)
EidLess(a, b) == a[1] < b[1] \/ (a[1] = b[1] /\ a[2] < b[2])

\* Vec::sort on a Vec<ExecutionId> collected from a set
RECURSIVE SortEids(_)
SortEids(set) ==
    IF set = {} THEN <<>>
    ELSE LET m == CHOOSE a \in set : \A b \in set \ {a} : EidLess(a, b)
         IN  <<m>> \o SortEids(set \ {m})

\* ascending sequence of a set of naturals (iteration order chosen for sets
\* whose iteration order the program leaves unspecified)
RECURSIVE SortNat(_)
SortNat(set) ==
    IF set = {} THEN <<>>
    ELSE LET m == CHOOSE a \in set : \A b \in set : a <= b
         IN  <<m>> \o SortNat(set \ {m})

\* the sum of f over the finite set of naturals set
RECURSIVE SumOver(_, _)
SumOver(f, set) ==
    IF set = {} THEN 0
    ELSE LET m == CHOOSE a \in set : \A b \in set : a <= b
         IN  f[m] + SumOver(f, set \ {m})

Reverse(seq) == [i \in 1..Len(seq) |-> seq[Len(seq) + 1 - i]]

(***************************************************************************)
(* Outbound messages and cache calls, recorded in the order they are made   *)
(* (as in tests::TestMessage).                                              *)
(***************************************************************************)
EnqueueExecution(wid, eid, details) ==
    [kind |-> "EnqueueExecution", worker |-> wid, eid |-> eid, details |-> details]

CancelExecution(wid, eid) ==
    [kind |-> "CancelExecution", worker |-> wid, eid |-> eid]

ExecutionResponse(cid, ceid, result) ==
    [kind |-> "ExecutionResponse", client |-> cid, ceid |-> ceid, result |-> result]

TransferArtifact(cid, digest) ==
    [kind |-> "TransferArtifact", client |-> cid, digest |-> digest]

StatisticsResponse(cid, nc, nw, nr) ==
    [kind |-> "StatisticsResponse", client |-> cid, num_clients |-> nc,
     num_workers |-> nw, num_requests |-> nr]

ToWorkerArtifactFetcher(fid, path) ==
    [kind |-> "ToWorkerArtifactFetcher", fetcher |-> fid, path |-> path]

CacheGetArtifact(eid, digest) ==
    [kind |-> "CacheGetArtifact", eid |-> eid, digest |-> digest]

CacheGotArtifact(digest) ==
    [kind |-> "CacheGotArtifact", digest |-> digest]

CacheDecrementRefcount(digest) ==
    [kind |-> "CacheDecrementRefcount", digest |-> digest]

CacheClientDisconnected(cid) ==
    [kind |-> "CacheClientDisconnected", client |-> cid]

CacheGetArtifactForWorker(digest) ==
    [kind |-> "CacheGetArtifactForWorker", digest |-> digest]

ClientMessageKinds == {"ExecutionResponse", "TransferArtifact", "StatisticsResponse"}

(***************************************************************************)
(* The artifact cache: entries maps each cached digest to its refcount,     *)
(* subs maps each digest being fetched to the jobs subscribed to it.        *)
(***************************************************************************)
NewCache == [entries |-> EmptyMap, subs |-> EmptyMap]

\* get(jobId, digest) -> Success (Have) | Wait (Pending) | Get (Need)
CacheGetResult(c, digest) ==
    IF digest \in DOMAIN c.entries THEN "Success"
    ELSE IF digest \in DOMAIN c.subs THEN "Wait"
    ELSE "Get"

CacheGet(c, eid, digest) ==
    IF digest \in DOMAIN c.entries
    THEN [c EXCEPT !.entries[digest] = @ + 1]
    ELSE IF digest \in DOMAIN c.subs
    THEN [c EXCEPT !.subs[digest] = Append(@, eid)]
    ELSE [c EXCEPT !.subs = MapInsert(@, digest, <<eid>>)]

\* got_artifact(digest, ..) -> the subscribed jobs; the new entry's refcount is
\* the subscription size; an entry that already exists is kept as it is.
CacheGotArtifactJobs(c, digest) ==
    IF digest \in DOMAIN c.entries \/ digest \notin DOMAIN c.subs THEN <<>>
    ELSE c.subs[digest]

CacheGot(c, digest) ==
    IF digest \in DOMAIN c.entries THEN c
    ELSE [entries |-> MapInsert(c.entries, digest, Len(CacheGotArtifactJobs(c, digest))),
          subs |-> MapRemove(c.subs, digest)]

\* eviction after got_artifact: only refcount-0 entries are candidates
Evictable(c) == {d \in DOMAIN c.entries : c.entries[d] = 0}

CacheEvict(c, victims) ==
    [c EXCEPT !.entries = [d \in (DOMAIN c.entries) \ victims |-> c.entries[d]]]

\* decrement(digest): the refcount never goes below 0
CacheDecrement(c, digest) ==
    IF digest \in DOMAIN c.entries /\ c.entries[digest] > 0
    THEN [c EXCEPT !.entries[digest] = @ - 1]
    ELSE c

\* client_disconnected(cid): cancels the client's subscriptions only
CacheClientGone(c, cid) ==
    LET kept(d) == SelectSeq(c.subs[d], LAMBDA e : e[1] # cid)
        live == {d \in DOMAIN c.subs : kept(d) # <<>>}
    IN  [c EXCEPT !.subs = [d \in live |-> kept(d)]]

\* get_for_worker(digest) -> Option<path>; the path is the digest's stable
\* content path, 0 stands for None
CacheGetForWorker(c, digest) ==
    IF digest \in DOMAIN c.entries THEN digest ELSE 0

(***************************************************************************)
(* The worker heap: a binary min-heap of WorkerIds stored as a sequence,    *)
(* position 1 is the root; each worker's heap_index is its position.        *)
(***************************************************************************)
\* an ordering by pending count alone, blind to the workers' slots
is_element_less_than_IgnoreSlots(ws, lhs_id, rhs_id) ==
    \/ Cardinality(ws[lhs_id].pending) < Cardinality(ws[rhs_id].pending)
    \/ /\ Cardinality(ws[lhs_id].pending) = Cardinality(ws[rhs_id].pending)
       /\ lhs_id < rhs_id

\* HeapDeps::is_element_less_than
is_element_less_than(ws, lhs_id, rhs_id) ==
    LET lhs_worker == ws[lhs_id]
        rhs_worker == ws[rhs_id]
        lhs == UsizeMul(Cardinality(lhs_worker.pending), rhs_worker.slots)
        rhs == UsizeMul(Cardinality(rhs_worker.pending), lhs_worker.slots)
    IN  lhs < rhs \/ (lhs = rhs /\ lhs_id < rhs_id)

Swap(h, i, j) == [h EXCEPT ![i] = h[j], ![j] = h[i]]

RECURSIVE SiftUp(_, _, _)
SiftUp(ws, h, i) ==
    IF i > 1 /\ is_element_less_than(ws, h[i], h[i \div 2])
    THEN SiftUp(ws, Swap(h, i, i \div 2), i \div 2)
    ELSE h

RECURSIVE SiftDown(_, _, _)
SiftDown(ws, h, i) ==
    LET l == 2 * i
        r == 2 * i + 1
        m1 == IF l <= Len(h) /\ is_element_less_than(ws, h[l], h[i]) THEN l ELSE i
        m2 == IF r <= Len(h) /\ is_element_less_than(ws, h[r], h[m1]) THEN r ELSE m1
    IN  IF m2 = i THEN h ELSE SiftDown(ws, Swap(h, i, m2), m2)

HeapPush(ws, h, id) == SiftUp(ws, Append(h, id), Len(h) + 1)

HeapRemove(ws, h, i) ==
    LET n == Len(h)
        moved == [k \in 1..(n - 1) |-> IF k = i THEN h[n] ELSE h[k]]
        up == SiftUp(ws, moved, i)
    IN  IF i = n THEN SubSeq(h, 1, n - 1)
        ELSE IF up # moved THEN up
        ELSE SiftDown(ws, moved, i)

RECURSIVE HeapifyFrom(_, _, _)
HeapifyFrom(ws, h, i) ==
    IF i < 1 THEN h ELSE HeapifyFrom(ws, SiftDown(ws, h, i), i - 1)

HeapRebuild(ws, h) == HeapifyFrom(ws, h, Len(h) \div 2)

\* HeapDeps::update_index, for every element of the heap
UpdateIndices(ws, h) ==
    [w \in DOMAIN ws |->
        IF w \in Range(h)
        THEN [ws[w] EXCEPT !.heap_index = CHOOSE i \in 1..Len(h) : h[i] = w]
        ELSE ws[w]]

(***************************************************************************)
(* Scheduler state as a value: the fields of struct Scheduler, the messages *)
(* and cache calls made so far by the running handler, and whether the      *)
(* handler has panicked (unwrap / assert_is_* failure).  Each step of a     *)
(* handler is an operator from state to state; a panicked state passes      *)
(* through the remaining steps unchanged.                                   *)
(***************************************************************************)
\* Execution::new
NewExecution(details) ==
    [details |-> details, acquired_artifacts |-> {}, missing_artifacts |-> {}]

\* Client::new (the sender is identified with the ClientId)
NewClient == [executions |-> EmptyMap]

\* Worker::new (the sender is identified with the WorkerId)
NewWorker(slots) == [slots |-> slots, pending |-> {}, heap_index |-> 0]

\* Scheduler::new
NewScheduler ==
    [clients |-> EmptyMap, workers |-> EmptyMap, queued_requests |-> <<>>,
     worker_heap |-> <<>>, cache |-> NewCache, msgs |-> <<>>, panicked |-> FALSE]

Panic(s) == [s EXCEPT !.panicked = TRUE]

Send(s, m) == [s EXCEPT !.msgs = Append(@, m)]

HasExecution(s, eid) ==
    eid[1] \in DOMAIN s.clients /\ eid[2] \in DOMAIN s.clients[eid[1]].executions

GetExecution(s, eid) == s.clients[eid[1]].executions[eid[2]]

\* the worker map and heap after a heap operation has moved elements
WithHeap(s, ws, h) == [s EXCEPT !.workers = UpdateIndices(ws, h), !.worker_heap = h]

\* a dispatch loop that lets a worker hold three jobs per slot
WorkerIsFull_ThreePerSlot(worker) == Cardinality(worker.pending) = 3 * worker.slots

\* a dispatch loop that stops at one job per slot
WorkerIsFull_OnePerSlot(worker) == Cardinality(worker.pending) >= worker.slots

\* the test "worker.pending.len() == 2 * worker.slots" of the dispatch loop
WorkerIsFull(worker) == Cardinality(worker.pending) = UsizeMul(2, worker.slots)

\* "worker.pending.insert(eid)" followed by "worker_heap.sift_down(..)"
InsertPendingAndSift(s, wid, ws) ==
    WithHeap(s, ws, SiftDown(ws, s.worker_heap, s.workers[wid].heap_index))

\* one iteration of the loop body of possibly_start_executions, for the heap
\* root wid: pop the queue, send EnqueueExecution, insert into pending, sift
StartOne(s, wid, eid) ==
    IF ~HasExecution(s, eid) THEN Panic([s EXCEPT !.queued_requests = Tail(@)])
    ELSE IF eid \in s.workers[wid].pending
    THEN Panic([s EXCEPT !.queued_requests = Tail(@),
                         !.msgs = Append(@, EnqueueExecution(wid, eid,
                                                GetExecution(s, eid).details))])
    ELSE InsertPendingAndSift(
             [s EXCEPT !.queued_requests = Tail(@),
                       !.msgs = Append(@, EnqueueExecution(wid, eid,
                                              GetExecution(s, eid).details))],
             wid,
             [s.workers EXCEPT ![wid].pending = @ \cup {eid}])

RECURSIVE possibly_start_executions(_)
possibly_start_executions(s) ==
    IF s.panicked \/ s.queued_requests = <<>> \/ DOMAIN s.workers = {} THEN s
    ELSE IF WorkerIsFull(s.workers[s.worker_heap[1]]) THEN s
    ELSE possibly_start_executions(
             StartOne(s, s.worker_heap[1], Head(s.queued_requests)))

\* a release loop that never calls the cache
DecrementAll_Skip(s, digests) == s

RECURSIVE DecrementAll_Twice(_, _)
DecrementAll_Twice(s, digests) ==
    IF s.panicked \/ digests = <<>> THEN s
    ELSE DecrementAll_Twice(
             [s EXCEPT !.cache = CacheDecrement(CacheDecrement(@, Head(digests)),
                                                Head(digests)),
                       !.msgs = Append(@, CacheDecrementRefcount(Head(digests)))],
             Tail(digests))

\* "for artifact in execution.acquired_artifacts { cache.decrement_refcount }"
RECURSIVE DecrementAll(_, _)
DecrementAll(s, digests) ==
    IF s.panicked \/ digests = <<>> THEN s
    ELSE DecrementAll([s EXCEPT !.cache = CacheDecrement(@, Head(digests)),
                                !.msgs = Append(@, CacheDecrementRefcount(Head(digests)))],
                      Tail(digests))

receive_client_connected(s, id) ==
    IF id \in DOMAIN s.clients THEN Panic(s)
    ELSE [s EXCEPT !.clients = MapInsert(@, id, NewClient)]

\* a release of every layer digest of the departed client's jobs, those
\* still missing included
RECURSIVE AcquiredOf_WithMissing(_, _)
AcquiredOf_WithMissing(executions, ceids) ==
    IF ceids = <<>> THEN <<>>
    ELSE SortNat(executions[Head(ceids)].acquired_artifacts
                    \cup executions[Head(ceids)].missing_artifacts)
            \o AcquiredOf_WithMissing(executions, Tail(ceids))

\* the digests released when a client goes away, one per (job, acquired digest)
RECURSIVE AcquiredOf(_, _)
AcquiredOf(executions, ceids) ==
    IF ceids = <<>> THEN <<>>
    ELSE SortNat(executions[Head(ceids)].acquired_artifacts)
            \o AcquiredOf(executions, Tail(ceids))

\* a retain that drops the entries without telling the worker
CancelAt_Silent(s, wid, dropped) ==
    [s EXCEPT !.workers[wid].pending = @ \ Range(dropped)]

\* a retain that also answers the departed client for each dropped entry
CancelAt_Respond(s, wid, dropped) ==
    [s EXCEPT !.workers[wid].pending = @ \ Range(dropped),
              !.msgs = @ \o [i \in 1..Len(dropped) |-> CancelExecution(wid, dropped[i])]
                         \o [i \in 1..Len(dropped) |->
                                ExecutionResponse(dropped[i][1], dropped[i][2], 1)]]

\* "worker.pending.retain(..)" for one worker, with a CancelExecution for each
\* dropped entry
CancelAt(s, wid, dropped) ==
    [s EXCEPT !.workers[wid].pending = @ \ Range(dropped),
              !.msgs = @ \o [i \in 1..Len(dropped) |-> CancelExecution(wid, dropped[i])]]

RECURSIVE CancelAtWorkers(_, _, _)
CancelAtWorkers(s, id, wids) ==
    IF s.panicked \/ wids = <<>> THEN s
    ELSE CancelAtWorkers(
             CancelAt(s, Head(wids),
                      SortEids({eid \in s.workers[Head(wids)].pending : eid[1] = id})),
             id, Tail(wids))

\* a disconnect that leaves the client's jobs in the run queue
RetainOthers_KeepAll(s, id) == s

\* a disconnect that empties the run queue
RetainOthers_Clear(s, id) ==
    IF s.panicked THEN s
    ELSE [s EXCEPT !.queued_requests = <<>>]

\* "queued_requests.retain(|ExecutionId(cid, _)| *cid != id)"
RetainOthers(s, id) ==
    IF s.panicked THEN s
    ELSE [s EXCEPT !.queued_requests = Retain(@, {eid \in ExecutionIds : eid[1] # id})]

\* a client disconnect that leaves the heap as the cancels found it
RebuildHeap_Skip(s) == s

\* "worker_heap.rebuild(&mut self.workers)"
RebuildHeap(s) ==
    IF s.panicked THEN s
    ELSE WithHeap(s, s.workers, HeapRebuild(s.workers, s.worker_heap))

receive_client_disconnected(s, id) ==
    IF id \notin DOMAIN s.clients
    THEN Panic([s EXCEPT !.cache = CacheClientGone(@, id),
                         !.msgs = Append(@, CacheClientDisconnected(id))])
    ELSE possibly_start_executions(RebuildHeap(
             CancelAtWorkers(
                 RetainOthers(
                     DecrementAll(
                         [s EXCEPT !.cache = CacheClientGone(@, id),
                                   !.msgs = Append(@, CacheClientDisconnected(id)),
                                   !.clients = MapRemove(@, id)],
                         AcquiredOf(s.clients[id].executions,
                                    SortNat(DOMAIN s.clients[id].executions))),
                     id),
                 id, SortNat(DOMAIN s.workers))))

\* arms that forget a layer the cache told the job to wait for
AcquireArm_DropWait(acc, cid, layer, res) ==
    IF res = "Success"
    THEN [s |-> IF layer \in acc.execution.acquired_artifacts THEN Panic(acc.s) ELSE acc.s,
          execution |-> [acc.execution EXCEPT !.acquired_artifacts = @ \cup {layer}]]
    ELSE IF res = "Wait"
    THEN acc
    ELSE [s |-> IF layer \in acc.execution.missing_artifacts THEN Panic(acc.s)
                ELSE Send(acc.s, TransferArtifact(cid, layer)),
          execution |-> [acc.execution EXCEPT !.missing_artifacts = @ \cup {layer}]]

\* arms that ask the client to upload also a layer that is being fetched
AcquireArm_AskOnWait(acc, cid, layer, res) ==
    IF res = "Success"
    THEN [s |-> IF layer \in acc.execution.acquired_artifacts THEN Panic(acc.s) ELSE acc.s,
          execution |-> [acc.execution EXCEPT !.acquired_artifacts = @ \cup {layer}]]
    ELSE [s |-> IF layer \in acc.execution.missing_artifacts THEN Panic(acc.s)
                ELSE Send(acc.s, TransferArtifact(cid, layer)),
          execution |-> [acc.execution EXCEPT !.missing_artifacts = @ \cup {layer}]]

\* the arms of "match self.cache.get_artifact(eid, layer)"; acc holds the
\* scheduler state and the Execution under construction
AcquireArm(acc, cid, layer, res) ==
    IF res = "Success"
    THEN [s |-> IF layer \in acc.execution.acquired_artifacts THEN Panic(acc.s) ELSE acc.s,
          execution |-> [acc.execution EXCEPT !.acquired_artifacts = @ \cup {layer}]]
    ELSE IF res = "Wait"
    THEN [s |-> IF layer \in acc.execution.missing_artifacts THEN Panic(acc.s) ELSE acc.s,
          execution |-> [acc.execution EXCEPT !.missing_artifacts = @ \cup {layer}]]
    ELSE [s |-> IF layer \in acc.execution.missing_artifacts THEN Panic(acc.s)
                ELSE Send(acc.s, TransferArtifact(cid, layer)),
          execution |-> [acc.execution EXCEPT !.missing_artifacts = @ \cup {layer}]]

\* one iteration of "for layer in &execution.details.layers"
AcquireLayer(acc, cid, eid, layer) ==
    AcquireArm([s |-> [acc.s EXCEPT !.cache = CacheGet(@, eid, layer),
                                    !.msgs = Append(@, CacheGetArtifact(eid, layer))],
                execution |-> acc.execution],
               cid, layer, CacheGetResult(acc.s.cache, layer))

RECURSIVE AcquireLayers(_, _, _, _)
AcquireLayers(acc, cid, eid, layers) ==
    IF acc.s.panicked \/ layers = <<>> THEN acc
    ELSE AcquireLayers(AcquireLayer(acc, cid, eid, Head(layers)), cid, eid, Tail(layers))

\* an insert that takes a job whose details equal those of a job the client
\* already has for a resubmission of that job
InsertExecution_Dedup(acc, cid, ceid) ==
    IF acc.s.panicked THEN acc.s
    ELSE IF ceid \in DOMAIN acc.s.clients[cid].executions THEN Panic(acc.s)
    ELSE IF \E c \in DOMAIN acc.s.clients[cid].executions :
                acc.s.clients[cid].executions[c].details = acc.execution.details
    THEN acc.s
    ELSE IF acc.execution.missing_artifacts = {}
    THEN possibly_start_executions(
             [acc.s EXCEPT !.clients[cid].executions = MapInsert(@, ceid, acc.execution),
                           !.queued_requests = Append(@, <<cid, ceid>>)])
    ELSE [acc.s EXCEPT !.clients[cid].executions = MapInsert(@, ceid, acc.execution)]

\* an insert that puts a runnable job at the front of the run queue
InsertExecution_Front(acc, cid, ceid) ==
    IF acc.s.panicked THEN acc.s
    ELSE IF ceid \in DOMAIN acc.s.clients[cid].executions THEN Panic(acc.s)
    ELSE IF acc.execution.missing_artifacts = {}
    THEN possibly_start_executions(
             [acc.s EXCEPT !.clients[cid].executions = MapInsert(@, ceid, acc.execution),
                           !.queued_requests = <<<<cid, ceid>>>> \o @])
    ELSE [acc.s EXCEPT !.clients[cid].executions = MapInsert(@, ceid, acc.execution)]

\* "client.executions.insert(ceid, execution).assert_is_none()" and the
\* "if have_all_artifacts" that follows
InsertExecution(acc, cid, ceid) ==
    IF acc.s.panicked THEN acc.s
    ELSE IF ceid \in DOMAIN acc.s.clients[cid].executions THEN Panic(acc.s)
    ELSE IF acc.execution.missing_artifacts = {}
    THEN possibly_start_executions(
             [acc.s EXCEPT !.clients[cid].executions = MapInsert(@, ceid, acc.execution),
                           !.queued_requests = Append(@, <<cid, ceid>>)])
    ELSE [acc.s EXCEPT !.clients[cid].executions = MapInsert(@, ceid, acc.execution)]

receive_client_execution_request(s, cid, ceid, details) ==
    IF cid \notin DOMAIN s.clients THEN Panic(s)
    ELSE InsertExecution(
             AcquireLayers([s |-> s, execution |-> NewExecution(details)],
                           cid, <<cid, ceid>>, details),
             cid, ceid)

\* a statistics handler that counts the jobs held by workers as requests
receive_client_statistics_request_WithPending(s, cid) ==
    IF cid \notin DOMAIN s.clients THEN Panic(s)
    ELSE Send(s, StatisticsResponse(cid, Cardinality(DOMAIN s.clients),
                                    Cardinality(DOMAIN s.workers),
                                    Len(s.queued_requests)
                                        + Cardinality(UNION {s.workers[w].pending :
                                                                w \in DOMAIN s.workers})))

\* a statistics handler that ignores a client it does not know
receive_client_statistics_request_Lenient(s, cid) ==
    IF cid \notin DOMAIN s.clients THEN s
    ELSE Send(s, StatisticsResponse(cid, Cardinality(DOMAIN s.clients),
                                    Cardinality(DOMAIN s.workers),
                                    Len(s.queued_requests)))

receive_client_statistics_request(s, cid) ==
    IF cid \notin DOMAIN s.clients THEN Panic(s)
    ELSE Send(s, StatisticsResponse(cid, Cardinality(DOMAIN s.clients),
                                    Cardinality(DOMAIN s.workers),
                                    Len(s.queued_requests)))

\* "self.worker_heap.push(&mut self.workers, id)"
PushWorker(s, id, ws) == WithHeap(s, ws, HeapPush(ws, s.worker_heap, id))

receive_worker_connected(s, id, slots) ==
    IF id \in DOMAIN s.workers THEN Panic(s)
    ELSE possibly_start_executions(
             PushWorker(s, id, MapInsert(s.workers, id, NewWorker(slots))))

\* a re-queue at the back of the run queue
PushFrontAll_Back(queue, eids) == queue \o Reverse(eids)

\* a re-queue that leaves the jobs in front in the order it visits them
PushFrontAll_Prepend(queue, eids) == eids \o queue

\* "for eid in vec.into_iter().rev() { queued_requests.push_front(eid) }"
RECURSIVE PushFrontAll(_, _)
PushFrontAll(queue, eids) ==
    IF eids = <<>> THEN queue
    ELSE PushFrontAll(<<Head(eids)>> \o queue, Tail(eids))

\* a worker disconnect that forgets the worker's jobs
Requeue_Drop(queue, pending) == queue

Requeue(queue, pending) == PushFrontAll(queue, Reverse(SortEids(pending)))

\* "self.workers.0.remove(&id)" followed by "worker_heap.remove(..)"
RemoveWorker(s, worker, ws) ==
    WithHeap([s EXCEPT !.queued_requests = Requeue(@, worker.pending)],
             ws, HeapRemove(ws, s.worker_heap, worker.heap_index))

receive_worker_disconnected(s, id) ==
    IF id \notin DOMAIN s.workers THEN Panic(s)
    ELSE possibly_start_executions(
             RemoveWorker(s, s.workers[id], MapRemove(s.workers, id)))

\* a tail that hands over the head of the queue without popping it
NextForWorker_NoPop(s, wid) ==
    IF s.panicked THEN s
    ELSE IF s.queued_requests # <<>>
    THEN IF ~HasExecution(s, Head(s.queued_requests)) THEN Panic(s)
         ELSE [s EXCEPT !.msgs = Append(@, EnqueueExecution(wid, Head(s.queued_requests),
                                     GetExecution(s, Head(s.queued_requests)).details)),
                        !.workers[wid].pending = @ \cup {Head(s.queued_requests)}]
    ELSE WithHeap(s, s.workers,
                  SiftUp(s.workers, s.worker_heap, s.workers[wid].heap_index))

\* a tail that leaves the worker where it is in the heap when the queue
\* is empty
NextForWorker_NoSift(s, wid) ==
    IF s.panicked THEN s
    ELSE IF s.queued_requests # <<>>
    THEN IF ~HasExecution(s, Head(s.queued_requests)) THEN Panic(s)
         ELSE [s EXCEPT !.queued_requests = Tail(@),
                        !.msgs = Append(@, EnqueueExecution(wid, Head(s.queued_requests),
                                     GetExecution(s, Head(s.queued_requests)).details)),
                        !.workers[wid].pending = @ \cup {Head(s.queued_requests)}]
    ELSE s

\* the tail of receive_worker_response: hand the next queued request to the
\* same worker, or sift the worker up
NextForWorker(s, wid) ==
    IF s.panicked THEN s
    ELSE IF s.queued_requests # <<>>
    THEN IF ~HasExecution(s, Head(s.queued_requests)) THEN Panic(s)
         ELSE [s EXCEPT !.queued_requests = Tail(@),
                        !.msgs = Append(@, EnqueueExecution(wid, Head(s.queued_requests),
                                     GetExecution(s, Head(s.queued_requests)).details)),
                        !.workers[wid].pending = @ \cup {Head(s.queued_requests)}]
    ELSE WithHeap(s, s.workers,
                  SiftUp(s.workers, s.worker_heap, s.workers[wid].heap_index))

\* a response that carries a fixed result instead of the worker's
RespondAndRemove_FixedResult(s, eid, result) ==
    IF eid[2] \notin DOMAIN s.clients[eid[1]].executions
    THEN Panic(Send(s, ExecutionResponse(eid[1], eid[2], 1)))
    ELSE [s EXCEPT !.msgs = Append(@, ExecutionResponse(eid[1], eid[2], 1)),
                   !.clients[eid[1]].executions = MapRemove(@, eid[2])]

\* "send ExecutionResponse; client.executions.remove(&eid.1).unwrap()"
RespondAndRemove(s, eid, result) ==
    IF eid[2] \notin DOMAIN s.clients[eid[1]].executions
    THEN Panic(Send(s, ExecutionResponse(eid[1], eid[2], result)))
    ELSE [s EXCEPT !.msgs = Append(@, ExecutionResponse(eid[1], eid[2], result)),
                   !.clients[eid[1]].executions = MapRemove(@, eid[2])]

\* a result handler without the "if !worker.pending.remove(&eid)" early return
receive_worker_response_Unchecked(s, wid, eid, result) ==
    IF wid \notin DOMAIN s.workers THEN Panic(s)
    ELSE IF eid[1] \notin DOMAIN s.clients
    THEN Panic([s EXCEPT !.workers[wid].pending = @ \ {eid}])
    ELSE NextForWorker(
             DecrementAll(
                 RespondAndRemove([s EXCEPT !.workers[wid].pending = @ \ {eid}],
                                  eid, result),
                 IF HasExecution(s, eid)
                 THEN SortNat(GetExecution(s, eid).acquired_artifacts) ELSE <<>>),
             wid)

\* a result handler that drops the result of a worker it does not know
receive_worker_response_DropUnknownWorker(s, wid, eid, result) ==
    IF wid \notin DOMAIN s.workers THEN s
    ELSE IF eid \notin s.workers[wid].pending THEN s
    ELSE IF eid[1] \notin DOMAIN s.clients
    THEN Panic([s EXCEPT !.workers[wid].pending = @ \ {eid}])
    ELSE NextForWorker(
             DecrementAll(
                 RespondAndRemove([s EXCEPT !.workers[wid].pending = @ \ {eid}],
                                  eid, result),
                 IF HasExecution(s, eid)
                 THEN SortNat(GetExecution(s, eid).acquired_artifacts) ELSE <<>>),
             wid)

receive_worker_response(s, wid, eid, result) ==
    IF wid \notin DOMAIN s.workers THEN Panic(s)
    ELSE IF eid \notin s.workers[wid].pending THEN s
    ELSE IF eid[1] \notin DOMAIN s.clients
    THEN Panic([s EXCEPT !.workers[wid].pending = @ \ {eid}])
    ELSE NextForWorker(
             DecrementAll(
                 RespondAndRemove([s EXCEPT !.workers[wid].pending = @ \ {eid}],
                                  eid, result),
                 IF HasExecution(s, eid)
                 THEN SortNat(GetExecution(s, eid).acquired_artifacts) ELSE <<>>),
             wid)

\* a loop body that queues the job whether or not layers are still missing
GotArtifactFor_QueueAlways(s, eid, digest) ==
    IF ~HasExecution(s, eid) THEN Panic(s)
    ELSE [s EXCEPT !.clients[eid[1]].executions[eid[2]] =
                       [@ EXCEPT !.acquired_artifacts = @ \cup {digest},
                                 !.missing_artifacts = @ \ {digest}],
                   !.queued_requests = Append(@, eid)]

\* the loop body of receive_got_artifact for one job returned by the cache
GotArtifactFor(s, eid, digest) ==
    IF ~HasExecution(s, eid) THEN Panic(s)
    ELSE IF digest \in GetExecution(s, eid).acquired_artifacts
            \/ digest \notin GetExecution(s, eid).missing_artifacts
    THEN Panic(s)
    ELSE [s EXCEPT !.clients[eid[1]].executions[eid[2]] =
                       [@ EXCEPT !.acquired_artifacts = @ \cup {digest},
                                 !.missing_artifacts = @ \ {digest}],
                   !.queued_requests =
                       IF GetExecution(s, eid).missing_artifacts = {digest}
                       THEN Append(@, eid) ELSE @]

\* a loop that stops after the first job the cache returned
GotArtifactForAll_FirstOnly(s, eids, digest) ==
    IF s.panicked \/ eids = <<>> THEN s
    ELSE GotArtifactFor(s, Head(eids), digest)

RECURSIVE GotArtifactForAll(_, _, _)
GotArtifactForAll(s, eids, digest) ==
    IF s.panicked \/ eids = <<>> THEN s
    ELSE GotArtifactForAll(GotArtifactFor(s, Head(eids), digest), Tail(eids), digest)

\* victims: the refcount-0 entries the cache evicts while storing the artifact
receive_got_artifact(s, digest, victims) ==
    possibly_start_executions(
        GotArtifactForAll(
            [s EXCEPT !.cache = CacheEvict(CacheGot(@, digest), victims),
                      !.msgs = Append(@, CacheGotArtifact(digest))],
            CacheGotArtifactJobs(s.cache, digest), digest))

\* a handler that answers every fetcher with None
receive_get_artifact_for_worker_None(s, digest, sender) ==
    [s EXCEPT !.msgs = @ \o <<CacheGetArtifactForWorker(digest),
                              ToWorkerArtifactFetcher(sender, 0)>>]

receive_get_artifact_for_worker(s, digest, sender) ==
    [s EXCEPT !.msgs = @ \o <<CacheGetArtifactForWorker(digest),
                              ToWorkerArtifactFetcher(sender,
                                  CacheGetForWorker(s.cache, digest))>>]

receive_decrement_refcount(s, digest) ==
    DecrementAll(s, <<digest>>)

(***************************************************************************)
(* The worker's executor (meticulous-worker/src/executor.rs): the reader    *)
(* of a job's stdout or stderr pipe.  A stream is the sequence of bytes     *)
(* still to come out of the pipe; a read delivers any non-empty prefix of   *)
(* it that fits, and 0 bytes at end of file.                                *)
(***************************************************************************)
Bytes == 1..MaxByte
InlineLimits == 0..MaxInlineLimit
Streams == UNION {[1..n -> Bytes] : n \in 0..MaxStreamLen}

Min(a, b) == IF a <= b THEN a ELSE b

\* enum JobOutputResult, and the Err of output_reader's Result
OutputNone == [kind |-> "None"]
OutputInline(bytes) == [kind |-> "Inline", bytes |-> bytes]
OutputTruncated(first, truncated) ==
    [kind |-> "Truncated", first |-> first, truncated |-> truncated]
OutputErr == [kind |-> "Err"]

OutputResult_NeverNone(buf, truncated) ==
    IF truncated = 0 THEN OutputInline(buf) ELSE OutputTruncated(buf, truncated)

\* output_reader: the final match on the number of bytes io::copy discarded
OutputResult(buf, truncated) ==
    IF truncated = 0 /\ buf = <<>> THEN OutputNone
    ELSE IF truncated = 0 THEN OutputInline(buf)
    ELSE OutputTruncated(buf, truncated)

\* output_reader is entered: nothing read yet; input remembers the whole stream
NewReader(inline_limit, stream) ==
    [pc |-> "take", inline_limit |-> inline_limit, stream |-> stream,
     input |-> stream, buf |-> <<>>, truncated |-> 0]

\* no output_reader is running
IdleReader == [pc |-> "idle"]

\* what stream.take(inline_limit) still lets through
TakeRemaining(r) == r.inline_limit - Len(r.buf)

\* take.read_to_end(&mut buf): one read of k bytes appended to buf
take_read(r, k) ==
    [r EXCEPT !.buf = r.buf \o SubSeq(r.stream, 1, k),
              !.stream = SubSeq(r.stream, k + 1, Len(r.stream))]

\* io::copy(&mut take.into_inner(), &mut io::sink()): one read of k bytes,
\* counted and thrown away
copy_read(r, k) ==
    [r EXCEPT !.truncated = r.truncated + k,
              !.stream = SubSeq(r.stream, k + 1, Len(r.stream))]

\* output_reader returns
reader_done(r, result) ==
    [pc |-> "done", inline_limit |-> r.inline_limit, input |-> r.input,
     result |-> result]

(***************************************************************************)
(* Executor::start_inner, a step at a time.  A string is a sequence of      *)
(* bytes, 0 being NUL.  The result of every system call is chosen by the    *)
(* environment and appended to calls.  The cloned child either execs, which *)
(* closes its write end of the exec-result pipe with nothing written, or    *)
(* writes an error record into that pipe and exits.                         *)
(***************************************************************************)
Strings == UNION {[1..n -> 0..1] : n \in 0..MaxStringLen}
ArgumentLists == UNION {[1..n -> Strings] : n \in 0..MaxArguments}
Pids == 1..MaxPid
ExecErrors == {<<1>>, <<2>>, <<1, 2>>}

\* enum StartResult
StartOk(pid) == [kind |-> "Ok", pid |-> pid]
StartExecutionError(err) == [kind |-> "ExecutionError", err |-> err]
StartSystemError(err) == [kind |-> "SystemError", err |-> err]

\* CString::new: Err if the string has an interior NUL
CStringNewOk(str) == \A i \in 1..Len(str) : str[i] # 0

\* the two output streams, each with its own completion callback
OutputStreams == {"stdout", "stderr"}

\* start_inner is entered
NewStart(program, arguments) ==
    [pc |-> "pipe_stdout", program |-> program, arguments |-> arguments,
     calls |-> <<>>, parent_write_ends |-> {}, child |-> "none", child_pid |-> 0,
     exec_result_pipe |-> <<>>, exec_result_buf |-> <<>>, spawned |-> {},
     tasks |-> {}, invoked |-> [stream \in OutputStreams |-> 0],
     result |-> [kind |-> "None"]]

\* Executor::start has not been called
IdleStart == [pc |-> "idle"]

Called(st, call, ok) == [st EXCEPT !.calls = Append(st.calls, [call |-> call, ok |-> ok])]

\* return from start_inner
Return(st, result) == [st EXCEPT !.pc = "done", !.result = result]

\* try_system_error!: on Err return SystemError, on Ok go on with next
try_system_error(st, call, ok, next) ==
    IF ok THEN next ELSE Return(Called(st, call, ok), StartSystemError(call))

PipeAfter(pc) ==
    IF pc = "pipe_stdout" THEN "pipe_stderr"
    ELSE IF pc = "pipe_stderr" THEN "pipe_exec_result" ELSE "program"

\* unistd::pipe() for stdout, stderr and the exec result
start_pipe(st, ok) ==
    try_system_error(st, st.pc, ok,
        [Called(st, st.pc, ok) EXCEPT !.pc = PipeAfter(st.pc),
             !.parent_write_ends = st.parent_write_ends \cup {st.pc}])

\* CString::new(details.program)
start_program(st) ==
    try_system_error(st, "program", CStringNewOk(st.program),
        [Called(st, "program", TRUE) EXCEPT !.pc = "arguments"])

\* details.arguments ... map(CString::new).collect()
start_arguments(st) ==
    try_system_error(st, "arguments",
        \A i \in 1..Len(st.arguments) : CStringNewOk(st.arguments[i]),
        [Called(st, "arguments", TRUE) EXCEPT !.pc = "clone"])

\* nc::clone3: ret is the child's pid in the parent, or 0 for Err
start_clone(st, ret) ==
    try_system_error(st, "clone", ret # 0,
        [Called(st, "clone", TRUE) EXCEPT !.pc = "drop", !.child = "starting",
                                           !.child_pid = ret])

\* a parent that goes on to the read with the exec-result write end still open
start_drop_KeepExecResult(st) ==
    [st EXCEPT !.pc = "read_exec_result",
               !.parent_write_ends = {"pipe_exec_result"}]

\* drop(stdout_write_fd); drop(stderr_write_fd); drop(exec_result_write_fd)
start_drop(st) == [st EXCEPT !.pc = "read_exec_result", !.parent_write_ends = {}]

\* the exec-result pipe is at end of file for the parent: nobody holds its
\* write end any more
ExecResultEof(st) ==
    /\ "pipe_exec_result" \notin st.parent_write_ends
    /\ st.child \in {"execed", "exited"}

start_check_exec_result_Ignore(st, buf) ==
    [st EXCEPT !.pc = "fcntl_stdout", !.exec_result_buf = buf]

\* if !exec_result_buf.is_empty() { return ExecutionError }
start_check_exec_result(st, buf) ==
    IF buf # <<>>
    THEN Return([st EXCEPT !.exec_result_buf = buf], StartExecutionError(buf))
    ELSE [st EXCEPT !.pc = "fcntl_stdout", !.exec_result_buf = buf]

\* File::from(exec_result_read_fd).read_to_end(&mut exec_result_buf)
start_read_exec_result(st, ok) ==
    try_system_error(st, "read_exec_result", ok,
        start_check_exec_result(Called(st, "read_exec_result", TRUE),
                                st.exec_result_pipe))

\* fcntl(F_SETFL, O_NONBLOCK) on the read end of stdout, then of stderr
start_fcntl(st, ok) ==
    try_system_error(st, st.pc, ok,
        [Called(st, st.pc, ok) EXCEPT
             !.pc = IF st.pc = "fcntl_stdout" THEN "fcntl_stderr" ELSE "spawn_stdout"])

\* task::spawn(output_reader_task_main(.., AsyncFile(AsyncFd::new(..)), ..))
\* for stdout, then for stderr, then StartResult::Ok
start_spawn(st, ok) ==
    try_system_error(st, st.pc, ok,
        IF st.pc = "spawn_stdout"
        THEN [Called(st, st.pc, ok) EXCEPT !.pc = "spawn_stderr",
                                            !.spawned = st.spawned \cup {"stdout"},
                                            !.tasks = st.tasks \cup {"stdout"}]
        ELSE Return([Called(st, st.pc, ok) EXCEPT
                         !.spawned = st.spawned \cup {"stderr"},
                         !.tasks = st.tasks \cup {"stderr"}],
                    StartOk(st.child_pid)))

\* output_reader_task_main: the reader has finished (end of file or a read
\* error), the task calls done(..) and ends
output_reader_task_main(st, stream) ==
    [st EXCEPT !.invoked[stream] = @ + 1, !.tasks = st.tasks \ {stream}]

\* start_and_exec_in_child: the exec succeeded
child_execs(st) == [st EXCEPT !.child = "execed"]

\* start_and_exec_in_child: an error before the exec is written to the
\* exec-result pipe and the child exits
child_fails(st, err) ==
    [st EXCEPT !.child = "exited", !.exec_result_pipe = st.exec_result_pipe \o err]

(***************************************************************************)
(* The clients' handling of a finished job: visitor in maelstrom-run and    *)
(* in meticulous-client, JobStatusVisitor::job_finished in cargo-maelstrom. *)
(* Each looks at the job's result and adds exit codes to an                 *)
(* ExitCodeAccumulator; added is the sequence of codes it has added.        *)
(***************************************************************************)
ClientPrograms == {"maelstrom-run", "meticulous-client", "cargo-maelstrom"}

\* Result<JobOutcome, JobError>; meticulous-client's JobResult has no TimedOut
JobExited(code) == [kind |-> "Exited", code |-> code]
JobSignaled(signum) == [kind |-> "Signaled", signum |-> signum]
JobTimedOut == [kind |-> "TimedOut"]
JobErrorExecution == [kind |-> "ExecutionError"]
JobErrorSystem == [kind |-> "SystemError"]

JobResultsOf(program) ==
    {JobExited(c) : c \in 0..MaxExitCode}
        \cup {JobSignaled(n) : n \in 1..MaxSignal}
        \cup (IF program = "meticulous-client" THEN {} ELSE {JobTimedOut})
        \cup {JobErrorExecution, JobErrorSystem}

\* maelstrom_util::process::ExitCode
ExitCodeFrom(code) == [exit_code |-> code % 256]
ExitCodeFAILURE == [exit_code |-> 1]

\* the visitor is called with a job's result
NewVisit(program, result) ==
    [pc |-> IF result.kind \in {"ExecutionError", "SystemError"}
                \/ program = "cargo-maelstrom"
            THEN "status" ELSE "output",
     program |-> program, result |-> result, added |-> <<>>, returned |-> "none"]

\* no visitor is running
IdleVisit == [pc |-> "idle"]

\* accum.add(code) / self.tracker.job_exited(case, code), then the visitor returns
AddAndReturn(v, code) ==
    [v EXCEPT !.pc = "done", !.added = Append(v.added, code), !.returned = "Ok"]

\* the visitor returns without adding: status is "Ok" or, after a ? on a
\* failed write, "Err"
ReturnOnly(v, status) == [v EXCEPT !.pc = "done", !.returned = status]

\* writing the job's stdout and stderr: print_effects(..).ok() in
\* maelstrom-run, the two matches with write_all(..)? in meticulous-client
visitor_output(v, ok) ==
    IF v.program = "meticulous-client" /\ ~ok THEN ReturnOnly(v, "Err")
    ELSE [v EXCEPT !.pc = "status"]

run_visitor_status_SignalNumber(v) ==
    IF v.result.kind = "Exited" /\ v.result.code = 0 THEN ReturnOnly(v, "Ok")
    ELSE IF v.result.kind = "Exited" THEN AddAndReturn(v, ExitCodeFrom(v.result.code))
    ELSE IF v.result.kind = "Signaled"
    THEN AddAndReturn(v, ExitCodeFrom(v.result.signum + 1))
    ELSE AddAndReturn(v, ExitCodeFAILURE)

\* maelstrom-run visitor: "match status" and the arms for TimedOut and Err;
\* the result of flush is dropped by .ok()
run_visitor_status(v) ==
    IF v.result.kind = "Exited" /\ v.result.code = 0 THEN ReturnOnly(v, "Ok")
    ELSE IF v.result.kind = "Exited" THEN AddAndReturn(v, ExitCodeFrom(v.result.code))
    ELSE AddAndReturn(v, ExitCodeFAILURE)

\* meticulous-client visitor: "match status" and the arms for Err; a failed
\* flush returns through ? before accum.add
client_visitor_status(v, flush_ok) ==
    IF v.result.kind = "Exited" /\ v.result.code = 0 THEN ReturnOnly(v, "Ok")
    ELSE IF v.result.kind \in {"Exited", "Signaled"} /\ ~flush_ok
    THEN ReturnOnly(v, "Err")
    ELSE IF v.result.kind = "Exited" THEN AddAndReturn(v, ExitCodeFrom(v.result.code))
    ELSE AddAndReturn(v, ExitCodeFAILURE)

\* cargo-maelstrom JobStatusVisitor::job_finished: every arm calls
\* tracker.job_exited, the Exited arm with the job's code even if it is 0
job_finished(v) ==
    IF v.result.kind = "Exited" THEN AddAndReturn(v, ExitCodeFrom(v.result.code))
    ELSE AddAndReturn(v, ExitCodeFAILURE)

visitor_status(v, flush_ok) ==
    IF v.program = "maelstrom-run" THEN run_visitor_status(v)
    ELSE IF v.program = "meticulous-client" THEN client_visitor_status(v, flush_ok)
    ELSE job_finished(v)

(***************************************************************************)
(* The reaper: reaper::main calls waitid in a loop and hands each completed *)
(* call to one callback of ReaperDeps, whose return value (Continue or      *)
(* Break) decides whether the loop waits again.  The callbacks are the      *)
(* caller's: what they return is the environment's choice.                  *)
(***************************************************************************)
MaxWaits == 2

\* si_code of a SIGCHLD siginfo (nc::types)
CLD_EXITED == 1
CLD_KILLED == 2
CLD_DUMPED == 3
CLD_TRAPPED == 4
SiCodes == {CLD_EXITED, CLD_KILLED, CLD_DUMPED, CLD_TRAPPED}

\* errno values of a failed waitid (EINTR, ECHILD)
WaitErrnos == {4, 10}

\* si_status samples of the i32 range: negative, small, u8::MAX, above it
ChildStatuses == {-1, 0, 7, 255, 256}

U8Max == 255

\* the outcome of one waitid call
WaitErr(err) == [ok |-> FALSE, err |-> err]
WaitOk(pid, si_code, status) ==
    [ok |-> TRUE, pid |-> pid, si_code |-> si_code, status |-> status]
WaitResults ==
    {WaitErr(err) : err \in WaitErrnos}
        \cup {WaitOk(pid, c, st) : pid \in Pids, c \in SiCodes, st \in ChildStatuses}

\* the same with the cast alone: values above u8::MAX wrap
clip_to_u8_Wrap(val) == val % (U8Max + 1)

\* fn clip_to_u8(val: i32) -> u8
clip_to_u8(val) ==
    IF val < 0 \/ val > U8Max THEN U8Max ELSE val % (U8Max + 1)

\* the calls of trait ReaperDeps
OnWaitidError(err) == [cb |-> "on_waitid_error", err |-> err]
OnDummyChildTermination == [cb |-> "on_dummy_child_termination"]
OnUnexpectedWaitCode(pid) == [cb |-> "on_unexpected_wait_code", pid |-> pid]
OnChildTermination(pid, status) ==
    [cb |-> "on_child_termination", pid |-> pid, status |-> status]

\* the match on waitid's result in reaper::main: the one callback it calls
reaper_match(dummy_pid, res) ==
    IF ~res.ok THEN OnWaitidError(res.err)
    ELSE IF res.pid = dummy_pid THEN OnDummyChildTermination
    ELSE IF res.si_code = CLD_EXITED
    THEN OnChildTermination(res.pid, JobExited(clip_to_u8(res.status)))
    ELSE IF res.si_code \in {CLD_KILLED, CLD_DUMPED}
    THEN OnChildTermination(res.pid, JobSignaled(clip_to_u8(res.status)))
    ELSE OnUnexpectedWaitCode(res.pid)

\* reaper::main is entered: instruction = Continue, nothing called yet
NewReaper(dummy_pid) ==
    [pc |-> "waitid", dummy_pid |-> dummy_pid, calls |-> <<>>,
     instruction |-> "Continue"]

\* reaper::main has not been called
IdleReaper == [pc |-> "idle"]

\* a loop that waits again whatever the callback returned
reaper_loop_Forever(rp, res, instruction) ==
    [rp EXCEPT !.pc = "waitid",
               !.instruction = instruction,
               !.calls = Append(rp.calls, [res |-> res,
                                           call |-> reaper_match(rp.dummy_pid, res),
                                           returned |-> instruction])]

\* one turn of the loop of reaper::main: waitid returns res, the callback is
\* called and returns instruction, and the loop condition is tested
reaper_loop(rp, res, instruction) ==
    [rp EXCEPT !.pc = IF instruction = "Continue" THEN "waitid" ELSE "returned",
               !.instruction = instruction,
               !.calls = Append(rp.calls, [res |-> res,
                                           call |-> reaper_match(rp.dummy_pid, res),
                                           returned |-> instruction])]

(***************************************************************************)
(* The load ordering of workers on its own: WorkerMap's                     *)
(* is_element_less_than and the dispatch loop's "2 * worker.slots" for      *)
(* workers whose counts range over the machine word.                        *)
(***************************************************************************)
OrderIds == {1, 2, 3}
SlotSamples == {1, 2, UsizeMax \div 2 + 1, UsizeMax}
PendingSamples == {0, 1, 4, UsizeMax}
Builds == {"release", "debug"}

\* a worker with n pending jobs (the jobs themselves do not matter here)
SampleWorker(slots, n) == [slots |-> slots, pending |-> 1..n, heap_index |-> 0]

OrderPairs == {p \in OrderIds \X OrderIds : p[1] # p[2]}

IdleOrder == [pc |-> "idle", build |-> "release", ws |-> <<>>, less |-> <<>>, full |-> <<>>]

NewOrder(build, ws) == [pc |-> "compare", build |-> build, ws |-> ws, less |-> <<>>, full |-> <<>>]

\* is_element_less_than(lhs, rhs) as the build runs it
compare_workers(build, ws, lhs_id, rhs_id) ==
    IF /\ build = "debug"
       /\ \/ UsizeMulOverflows(Cardinality(ws[lhs_id].pending), ws[rhs_id].slots)
          \/ UsizeMulOverflows(Cardinality(ws[rhs_id].pending), ws[lhs_id].slots)
    THEN "panic"
    ELSE IF is_element_less_than(ws, lhs_id, rhs_id) THEN "less" ELSE "not_less"

\* "worker.pending.len() == 2 * worker.slots" as the build runs it
test_full(build, worker) ==
    IF build = "debug" /\ UsizeMulOverflows(2, worker.slots) THEN "panic"
    ELSE IF WorkerIsFull(worker) THEN "full" ELSE "not_full"

(***************************************************************************)
(* The state machine.                                                       *)
(***************************************************************************)
VARIABLES
    clients,          \* Scheduler::clients
    workers,          \* Scheduler::workers
    queued_requests,  \* Scheduler::queued_requests
    worker_heap,      \* Scheduler::worker_heap
    cache,            \* Scheduler::cache
    panicked,         \* the scheduler task has panicked
    goneClients,      \* history: clients that have disconnected
    goneWorkers,      \* history: workers that have disconnected
    usedEids,         \* history: ExecutionIds submitted by connected clients
    numJobs,          \* history: number of ExecutionRequests handled
    released,         \* history: DecrementRefcount messages handled, per digest
    responded,        \* history: ExecutionIds answered with an ExecutionResponse
    enqueuedTo,       \* history: the worker each live job was last enqueued to, or 0
    asked,            \* history: per digest being fetched, the connected clients sent TransferArtifact
    dispatched,       \* history of SpecRequeue: per worker, its pending jobs in the order they were enqueued to it
    reader,           \* executor: the output_reader in progress
    starter,          \* executor: the call of Executor::start in progress
    visit,            \* client: the visitor call for a finished job in progress
    order,            \* scheduler: the workers whose load ordering is being computed
    reaper            \* worker: the reaper loop, with the callbacks it has made

schedulerVars ==
    <<clients, workers, queued_requests, worker_heap, cache, panicked,
      goneClients, goneWorkers, usedEids, numJobs, released, responded,
      enqueuedTo, asked, dispatched>>

vars == <<schedulerVars, reader, starter, visit, order, reaper>>

\* the scheduler as the next handler finds it
Cur ==
    [clients |-> clients, workers |-> workers, queued_requests |-> queued_requests,
     worker_heap |-> worker_heap, cache |-> cache, msgs |-> <<>>,
     panicked |-> FALSE]

SchedulerInit ==
    /\ clients = NewScheduler.clients
    /\ workers = NewScheduler.workers
    /\ queued_requests = NewScheduler.queued_requests
    /\ worker_heap = NewScheduler.worker_heap
    /\ cache = NewScheduler.cache
    /\ panicked = FALSE
    /\ goneClients = {}
    /\ goneWorkers = {}
    /\ usedEids = {}
    /\ numJobs = 0
    /\ released = [d \in Digests |-> 0]
    /\ responded = {}
    /\ enqueuedTo = [e \in ExecutionIds |-> 0]
    /\ asked = [d \in Digests |-> {}]
    /\ dispatched = [w \in WorkerIds |-> <<>>]

\* the broker's scheduler runs; no executor is at work
Init ==
    /\ SchedulerInit
    /\ reader = IdleReader
    /\ starter = IdleStart
    /\ visit = IdleVisit
    /\ order = IdleOrder
    /\ reaper = IdleReaper

(***************************************************************************)
(* enum Message, as records.                                                *)
(***************************************************************************)
MsgClientConnected(id) == [type |-> "ClientConnected", id |-> id]

MsgClientDisconnected(id) == [type |-> "ClientDisconnected", id |-> id]

MsgExecutionRequest(cid, ceid, details) ==
    [type |-> "ExecutionRequest", cid |-> cid, ceid |-> ceid, details |-> details]

MsgStatisticsRequest(cid) == [type |-> "StatisticsRequest", cid |-> cid]

MsgWorkerConnected(id, slots) == [type |-> "WorkerConnected", id |-> id, slots |-> slots]

MsgWorkerDisconnected(id) == [type |-> "WorkerDisconnected", id |-> id]

MsgWorkerResponse(wid, eid, result) ==
    [type |-> "WorkerResponse", wid |-> wid, eid |-> eid, result |-> result]

MsgGotArtifact(digest, victims) ==
    [type |-> "GotArtifact", digest |-> digest, victims |-> victims]

MsgGetArtifactForWorker(digest, sender) ==
    [type |-> "GetArtifactForWorker", digest |-> digest, sender |-> sender]

MsgDecrementRefcount(digest) == [type |-> "DecrementRefcount", digest |-> digest]

\* Scheduler::receive_message
receive_message(s, msg) ==
    CASE msg.type = "ClientConnected" -> receive_client_connected(s, msg.id)
      [] msg.type = "ClientDisconnected" -> receive_client_disconnected(s, msg.id)
      [] msg.type = "ExecutionRequest" ->
            receive_client_execution_request(s, msg.cid, msg.ceid, msg.details)
      [] msg.type = "StatisticsRequest" -> receive_client_statistics_request(s, msg.cid)
      [] msg.type = "WorkerConnected" -> receive_worker_connected(s, msg.id, msg.slots)
      [] msg.type = "WorkerDisconnected" -> receive_worker_disconnected(s, msg.id)
      [] msg.type = "WorkerResponse" ->
            receive_worker_response(s, msg.wid, msg.eid, msg.result)
      [] msg.type = "GotArtifact" -> receive_got_artifact(s, msg.digest, msg.victims)
      [] msg.type = "GetArtifactForWorker" ->
            receive_get_artifact_for_worker(s, msg.digest, msg.sender)
      [] msg.type = "DecrementRefcount" -> receive_decrement_refcount(s, msg.digest)

(***************************************************************************)
(* The messages the scheduler can be sent in the current state.  ClientIds  *)
(* and WorkerIds are minted by the broker's connection layer and            *)
(* ClientExecutionIds by the client, in increasing order and never again    *)
(* after use; an id wrongly repeated while still in use is the duplicate    *)
(* the scheduler asserts against.                                           *)
(***************************************************************************)
Arrives(msg) ==
    CASE msg.type = "ClientConnected" ->
            /\ msg.id \notin goneClients
            /\ \A c \in 1..(msg.id - 1) : c \in goneClients \cup DOMAIN clients
      [] msg.type = "ExecutionRequest" ->
            /\ \/ /\ <<msg.cid, msg.ceid>> \notin usedEids
                  /\ \A e \in 1..(msg.ceid - 1) : <<msg.cid, e>> \in usedEids
               \/ HasExecution(Cur, <<msg.cid, msg.ceid>>)
      [] msg.type = "WorkerConnected" -> msg.id \notin goneWorkers
      [] msg.type = "GotArtifact" ->
            msg.victims \subseteq Evictable(CacheGot(cache, msg.digest))
      [] msg.type = "DecrementRefcount" -> SumOver(released, Digests) < MaxReleases
      [] OTHER -> TRUE

Messages ==
    {MsgClientConnected(id) : id \in ClientIds}
    \cup {MsgClientDisconnected(id) : id \in ClientIds}
    \cup {MsgExecutionRequest(cid, ceid, details) :
             cid \in ClientIds, ceid \in Ceids, details \in AllDetails}
    \cup {MsgStatisticsRequest(cid) : cid \in ClientIds}
    \cup {MsgWorkerConnected(id, slots) : id \in WorkerIds, slots \in SlotCounts}
    \cup {MsgWorkerDisconnected(id) : id \in WorkerIds}
    \cup {MsgWorkerResponse(wid, eid, result) :
             wid \in WorkerIds, eid \in ClientIds \X Ceids, result \in Results}
    \cup {MsgGotArtifact(digest, victims) : digest \in Digests, victims \in SUBSET Digests}
    \cup {MsgGetArtifactForWorker(digest, sender) : digest \in Digests, sender \in FetcherIds}
    \cup {MsgDecrementRefcount(digest) : digest \in Digests}

\* the scheduler after handling msg in the current state, with the messages
\* and cache calls the handler made
After(msg) == receive_message(Cur, msg)

(***************************************************************************)
(* History kept alongside the scheduler state.                              *)
(***************************************************************************)
MsgsOfKind(ms, kind) == SelectSeq(ms, LAMBDA m : m.kind = kind)

\* the worker that the messages ms last enqueued eid to, or prev if none
RECURSIVE LastEnqueue(_, _, _)
LastEnqueue(ms, eid, prev) ==
    IF ms = <<>> THEN prev
    ELSE LastEnqueue(Tail(ms), eid,
                     IF Head(ms).kind = "EnqueueExecution" /\ Head(ms).eid = eid
                     THEN Head(ms).worker ELSE prev)

RespondedIn(ms) ==
    {<<m.client, m.ceid>> : m \in Range(MsgsOfKind(ms, "ExecutionResponse"))}

\* the clients that the messages ms ask to upload digest
AskedIn(ms, digest) ==
    {m.client : m \in {t \in Range(MsgsOfKind(ms, "TransferArtifact")) : t.digest = digest}}

\* the jobs that the messages ms enqueue at worker w, in order
EnqueuedAt(ms, w) ==
    LET sent == SelectSeq(ms, LAMBDA m : m.kind = "EnqueueExecution" /\ m.worker = w)
    IN  [i \in DOMAIN sent |-> sent[i].eid]

\* A panic ends the scheduler task: its state is dropped.
Aborted ==
    /\ clients' = NewScheduler.clients
    /\ workers' = NewScheduler.workers
    /\ queued_requests' = NewScheduler.queued_requests
    /\ worker_heap' = NewScheduler.worker_heap
    /\ cache' = NewScheduler.cache
    /\ panicked' = TRUE
    /\ goneClients' = {}
    /\ goneWorkers' = {}
    /\ usedEids' = {}
    /\ numJobs' = 0
    /\ released' = [d \in Digests |-> 0]
    /\ responded' = {}
    /\ enqueuedTo' = [e \in ExecutionIds |-> 0]
    /\ asked' = [d \in Digests |-> {}]

\* one turn of the scheduler task's loop: msg is received and its handler has
\* run to completion, leaving the scheduler as s
CommitScheduler(msg, s) ==
    /\ Arrives(msg)
    /\ UNCHANGED <<reader, starter, visit, order, reaper>>
    /\     IF s.panicked THEN Aborted
           ELSE /\ clients' = s.clients
                /\ workers' = s.workers
                /\ queued_requests' = s.queued_requests
                /\ worker_heap' = s.worker_heap
                /\ cache' = s.cache
                /\ panicked' = FALSE
                /\ goneClients' = IF msg.type = "ClientDisconnected"
                                  THEN goneClients \cup {msg.id} ELSE goneClients
                /\ goneWorkers' = IF msg.type = "WorkerDisconnected"
                                  THEN goneWorkers \cup {msg.id} ELSE goneWorkers
                /\ usedEids' = {e \in IF msg.type = "ExecutionRequest"
                                      THEN usedEids \cup {<<msg.cid, msg.ceid>>}
                                      ELSE usedEids : e[1] \in DOMAIN s.clients}
                /\ numJobs' = IF msg.type = "ExecutionRequest"
                              THEN numJobs + 1 ELSE numJobs
                /\ released' = IF msg.type = "DecrementRefcount"
                               THEN [released EXCEPT ![msg.digest] = @ + 1]
                               ELSE released
                /\ responded' = {e \in responded \cup RespondedIn(s.msgs) :
                                    e[1] \in DOMAIN s.clients}
                /\ enqueuedTo' = [e \in ExecutionIds |->
                                    IF HasExecution(s, e)
                                    THEN LastEnqueue(s.msgs, e, enqueuedTo[e]) ELSE 0]
                /\ asked' = [d \in Digests |->
                               IF d \in DOMAIN s.cache.subs
                               THEN (asked[d] \cup AskedIn(s.msgs, d)) \cap DOMAIN s.clients
                               ELSE {}]

\* one turn of the loop in the specifications that do not follow the order
\* of dispatch
Commit(msg, s) ==
    /\ CommitScheduler(msg, s)
    /\ UNCHANGED dispatched

\* one turn of the loop in SpecRequeue, which follows the order of dispatch
CommitOrdered(msg, s) ==
    /\ CommitScheduler(msg, s)
    /\ dispatched' = [w \in WorkerIds |->
                        IF ~s.panicked /\ w \in DOMAIN s.workers
                        THEN SelectSeq(dispatched[w] \o EnqueuedAt(s.msgs, w),
                                       LAMBDA e : e \in s.workers[w].pending)
                        ELSE <<>>]

\* Message::ClientConnected
ClientConnected(id) ==
    /\ panicked = FALSE
    /\ Commit(MsgClientConnected(id), After(MsgClientConnected(id)))

\* Message::ClientDisconnected
ClientDisconnected(id) ==
    /\ panicked = FALSE
    /\ Commit(MsgClientDisconnected(id), After(MsgClientDisconnected(id)))

\* Message::ExecutionRequest
ExecutionRequest(cid, ceid, details) ==
    /\ panicked = FALSE
    /\ numJobs < MaxJobs
    /\ Commit(MsgExecutionRequest(cid, ceid, details), After(MsgExecutionRequest(cid, ceid, details)))

\* Message::StatisticsRequest
StatisticsRequest(cid) ==
    /\ panicked = FALSE
    /\ Commit(MsgStatisticsRequest(cid), After(MsgStatisticsRequest(cid)))

\* Message::WorkerConnected
WorkerConnected(id, slots) ==
    /\ panicked = FALSE
    /\ Commit(MsgWorkerConnected(id, slots), After(MsgWorkerConnected(id, slots)))

\* Message::WorkerDisconnected
WorkerDisconnected(id) ==
    /\ panicked = FALSE
    /\ Commit(MsgWorkerDisconnected(id), After(MsgWorkerDisconnected(id)))

\* Message::WorkerResponse
WorkerResponse(wid, eid, result) ==
    /\ panicked = FALSE
    /\ Commit(MsgWorkerResponse(wid, eid, result), After(MsgWorkerResponse(wid, eid, result)))

\* Message::GotArtifact
GotArtifact(digest, victims) ==
    /\ panicked = FALSE
    /\ Commit(MsgGotArtifact(digest, victims), After(MsgGotArtifact(digest, victims)))

\* Message::GetArtifactForWorker
GetArtifactForWorker(digest, sender) ==
    /\ panicked = FALSE
    /\ Commit(MsgGetArtifactForWorker(digest, sender), After(MsgGetArtifactForWorker(digest, sender)))

\* Message::DecrementRefcount
DecrementRefcount(digest) ==
    /\ panicked = FALSE
    /\ Commit(MsgDecrementRefcount(digest), After(MsgDecrementRefcount(digest)))

Next ==
    \/ \E id \in ClientIds : ClientConnected(id)
    \/ \E id \in ClientIds : ClientDisconnected(id)
    \/ \E cid \in ClientIds, ceid \in Ceids, details \in AllDetails :
          ExecutionRequest(cid, ceid, details)
    \/ \E cid \in ClientIds : StatisticsRequest(cid)
    \/ \E id \in WorkerIds, slots \in SlotCounts : WorkerConnected(id, slots)
    \/ \E id \in WorkerIds : WorkerDisconnected(id)
    \/ \E wid \in WorkerIds, eid \in ClientIds \X Ceids, result \in Results :
          WorkerResponse(wid, eid, result)
    \/ \E digest \in Digests, victims \in SUBSET Digests : GotArtifact(digest, victims)
    \/ \E digest \in Digests, sender \in FetcherIds : GetArtifactForWorker(digest, sender)
    \/ \E digest \in Digests : DecrementRefcount(digest)

Spec == Init /\ [][Next]_vars

(***************************************************************************)
(* The scheduler under load: jobs without layers, enough of them to fill    *)
(* several workers and leave jobs in the run queue.                         *)
(***************************************************************************)
DispatchMessages ==
    {MsgClientConnected(id) : id \in ClientIds}
    \cup {MsgClientDisconnected(id) : id \in ClientIds}
    \cup {MsgExecutionRequest(cid, ceid, <<>>) : cid \in ClientIds, ceid \in DispatchCeids}
    \cup {MsgWorkerConnected(id, slots) : id \in WorkerIds, slots \in SlotCounts}
    \cup {MsgWorkerDisconnected(id) : id \in WorkerIds}
    \cup {MsgWorkerResponse(wid, eid, 1) : wid \in WorkerIds, eid \in ExecutionIds}

\* Message::ExecutionRequest for a job without layers
LayerlessRequest(cid, ceid) ==
    /\ panicked = FALSE
    /\ numJobs < MaxDispatchJobs
    /\ Commit(MsgExecutionRequest(cid, ceid, <<>>), After(MsgExecutionRequest(cid, ceid, <<>>)))

NextDispatch ==
    \/ \E id \in ClientIds : ClientConnected(id)
    \/ \E id \in ClientIds : ClientDisconnected(id)
    \/ \E cid \in ClientIds, ceid \in DispatchCeids :
          LayerlessRequest(cid, ceid)
    \/ \E id \in WorkerIds, slots \in SlotCounts : WorkerConnected(id, slots)
    \/ \E id \in WorkerIds : WorkerDisconnected(id)
    \/ \E wid \in WorkerIds, eid \in ExecutionIds : WorkerResponse(wid, eid, 1)

SpecDispatch == Init /\ [][NextDispatch]_vars

(***************************************************************************)
(* output_reader as a state machine: the reads of take.read_to_end, then    *)
(* the reads of io::copy, then the match.  Any read may fail, and then the  *)
(* ? operator returns the error.                                            *)
(***************************************************************************)
InitOutput ==
    /\ SchedulerInit
    /\ reader \in {NewReader(l, st) : l \in InlineLimits, st \in Streams}
    /\ starter = IdleStart
    /\ visit = IdleVisit
    /\ order = IdleOrder
    /\ reaper = IdleReaper

\* read_to_end reads k bytes through the Take
TakeRead(k) ==
    /\ reader.pc = "take"
    /\ k <= Min(Len(reader.stream), TakeRemaining(reader))
    /\ reader' = take_read(reader, k)
    /\ UNCHANGED <<schedulerVars, starter, visit, order, reaper>>

\* read_to_end reads 0 bytes: the Take is used up or the pipe is at end of file
TakeEof ==
    /\ reader.pc = "take"
    /\ Min(Len(reader.stream), TakeRemaining(reader)) = 0
    /\ reader' = [reader EXCEPT !.pc = "copy"]
    /\ UNCHANGED <<schedulerVars, starter, visit, order, reaper>>

\* io::copy reads k bytes of what is left in the pipe
CopyRead(k) ==
    /\ reader.pc = "copy"
    /\ k <= Len(reader.stream)
    /\ reader' = copy_read(reader, k)
    /\ UNCHANGED <<schedulerVars, starter, visit, order, reaper>>

\* io::copy reads 0 bytes: end of file; output_reader returns its result
CopyEof ==
    /\ reader.pc = "copy"
    /\ reader.stream = <<>>
    /\ reader' = reader_done(reader, OutputResult(reader.buf, reader.truncated))
    /\ UNCHANGED <<schedulerVars, starter, visit, order, reaper>>

\* a read of the pipe fails: output_reader returns the error
ReadFails ==
    /\ reader.pc \in {"take", "copy"}
    /\ reader' = reader_done(reader, OutputErr)
    /\ UNCHANGED <<schedulerVars, starter, visit, order, reaper>>

NextOutput ==
    \/ \E k \in 1..MaxStreamLen : TakeRead(k)
    \/ TakeEof
    \/ \E k \in 1..MaxStreamLen : CopyRead(k)
    \/ CopyEof
    \/ ReadFails

SpecOutput == InitOutput /\ [][NextOutput]_vars

(***************************************************************************)
(* Executor::start as a state machine, together with the child it clones.   *)
(***************************************************************************)
InitStart ==
    /\ SchedulerInit
    /\ reader = IdleReader
    /\ starter \in {NewStart(p, a) : p \in Strings, a \in ArgumentLists}
    /\ visit = IdleVisit
    /\ order = IdleOrder
    /\ reaper = IdleReaper

StartStep(st) ==
    /\ starter' = st
    /\ UNCHANGED <<schedulerVars, reader, visit, order, reaper>>

CreatePipe(ok) ==
    /\ starter.pc \in {"pipe_stdout", "pipe_stderr", "pipe_exec_result"}
    /\ StartStep(start_pipe(starter, ok))

BuildProgram ==
    /\ starter.pc = "program"
    /\ StartStep(start_program(starter))

BuildArguments ==
    /\ starter.pc = "arguments"
    /\ StartStep(start_arguments(starter))

Clone(ret) ==
    /\ starter.pc = "clone"
    /\ StartStep(start_clone(starter, ret))

DropWriteEnds ==
    /\ starter.pc = "drop"
    /\ StartStep(start_drop(starter))

\* the blocking read returns once the pipe is at end of file, or fails
ReadExecResult(ok) ==
    /\ starter.pc = "read_exec_result"
    /\ ok => ExecResultEof(starter)
    /\ StartStep(start_read_exec_result(starter, ok))

SetNonBlocking(ok) ==
    /\ starter.pc \in {"fcntl_stdout", "fcntl_stderr"}
    /\ StartStep(start_fcntl(starter, ok))

SpawnReader(ok) ==
    /\ starter.pc \in {"spawn_stdout", "spawn_stderr"}
    /\ StartStep(start_spawn(starter, ok))

\* a spawned reader task runs to its end, before or after start returns
ReaderTaskDone(stream) ==
    /\ starter.pc # "idle"
    /\ stream \in starter.tasks
    /\ StartStep(output_reader_task_main(starter, stream))

ChildExecs ==
    /\ starter.pc # "idle"
    /\ starter.child = "starting"
    /\ StartStep(child_execs(starter))

ChildFails(err) ==
    /\ starter.pc # "idle"
    /\ starter.child = "starting"
    /\ StartStep(child_fails(starter, err))

NextStart ==
    \/ \E ok \in BOOLEAN : CreatePipe(ok)
    \/ BuildProgram
    \/ BuildArguments
    \/ \E ret \in {0} \cup Pids : Clone(ret)
    \/ DropWriteEnds
    \/ \E ok \in BOOLEAN : ReadExecResult(ok)
    \/ \E ok \in BOOLEAN : SetNonBlocking(ok)
    \/ \E ok \in BOOLEAN : SpawnReader(ok)
    \/ \E stream \in OutputStreams : ReaderTaskDone(stream)
    \/ ChildExecs
    \/ \E err \in ExecErrors : ChildFails(err)

SpecStart == InitStart /\ [][NextStart]_vars

(***************************************************************************)
(* A client's visitor handling one finished job.                            *)
(***************************************************************************)
InitVisit ==
    /\ SchedulerInit
    /\ reader = IdleReader
    /\ starter = IdleStart
    /\ visit \in UNION {{NewVisit(p, r) : r \in JobResultsOf(p)} : p \in ClientPrograms}
    /\ order = IdleOrder
    /\ reaper = IdleReaper

\* the job's output is written, or writing it fails
WriteOutput(ok) ==
    /\ visit.pc = "output"
    /\ visit' = visitor_output(visit, ok)
    /\ UNCHANGED <<schedulerVars, reader, starter, order, reaper>>

\* the match on the job's status or error, with the outcome of the flush
MatchStatus(flush_ok) ==
    /\ visit.pc = "status"
    /\ visit' = visitor_status(visit, flush_ok)
    /\ UNCHANGED <<schedulerVars, reader, starter, order, reaper>>

NextVisit ==
    \/ \E ok \in BOOLEAN : WriteOutput(ok)
    \/ \E flush_ok \in BOOLEAN : MatchStatus(flush_ok)

SpecVisit == InitVisit /\ [][NextVisit]_vars

(***************************************************************************)
(* Properties.  A property of one handler run is stated over every message  *)
(* msg that can arrive in a reachable state: Cur is the scheduler before    *)
(* the handler, After(msg) the scheduler after it together with the         *)
(* messages and cache calls the handler made.                               *)
(***************************************************************************)
\* the jobs of connected clients that wait for no artifact
Runnable(s) ==
    {e \in ExecutionIds :
        HasExecution(s, e) /\ GetExecution(s, e).missing_artifacts = {}}

\* the union of the workers' pending sets
PendingAll(s) == UNION {s.workers[w].pending : w \in DOMAIN s.workers}

Enqueues(ms) == MsgsOfKind(ms, "EnqueueExecution")

EnqueuedEids(ms) == {m.eid : m \in Range(Enqueues(ms))}

C1Post(msg, s) ==
    /\ EnqueuedEids(s.msgs) \subseteq Runnable(s)
    /\ \A e \in (Range(s.queued_requests) \cup EnqueuedEids(s.msgs)) \ Runnable(Cur) :
          \/ /\ msg.type = "ExecutionRequest"
             /\ e = <<msg.cid, msg.ceid>>
             /\ e \in Runnable(s)
          \/ /\ msg.type = "GotArtifact"
             /\ HasExecution(Cur, e)
             /\ GetExecution(Cur, e).missing_artifacts = {msg.digest}

\* C1: no EnqueueExecution is sent for a job that still has a missing
\* artifact: every queued or pending job has an empty missing set, every
\* job a handler enqueues has an empty missing set, and a job that was not
\* runnable before a handler is in the run queue or enqueued after it only
\* if the handler is the job's own ExecutionRequest and found nothing
\* missing, or the GotArtifact for the one digest the job still missed.
C1_DispatchOnlyWithAllArtifacts ==
    /\ Range(queued_requests) \cup PendingAll(Cur) \subseteq Runnable(Cur)
    /\ \A msg \in Messages : Arrives(msg) => C1Post(msg, After(msg))

\* a job waiting for its last digest is enqueued at a worker by the
\* GotArtifact for that digest
C1_Witness ==
    \E d \in Digests, e \in ExecutionIds :
        /\ HasExecution(Cur, e)
        /\ GetExecution(Cur, e).missing_artifacts = {d}
        /\ e \in EnqueuedEids(After(MsgGotArtifact(d, {})).msgs)

\* C2: every connected worker has at most 2 * slots pending jobs, in every
\* state the scheduler is left in by a handler.
C2_PendingAtMostTwiceSlots ==
    \A w \in DOMAIN workers : Cardinality(workers[w].pending) <= 2 * workers[w].slots

\* a worker holds exactly 2 * slots jobs while another job waits in the queue
C2_Witness ==
    /\ queued_requests # <<>>
    /\ \E w \in DOMAIN workers :
          Cardinality(workers[w].pending) = 2 * workers[w].slots

\* C3: the run queue holds no job twice, shares no job with any worker's
\* pending set, and together with the pending sets holds exactly the jobs of
\* connected clients whose missing set is empty.
C3_QueueAndPendingPartitionRunnable ==
    /\ \A i, j \in DOMAIN queued_requests :
          i # j => queued_requests[i] # queued_requests[j]
    /\ Range(queued_requests) \cap PendingAll(Cur) = {}
    /\ Range(queued_requests) \cup PendingAll(Cur) = Runnable(Cur)

\* jobs in the run queue and jobs pending at a worker at the same time
C3_Witness ==
    /\ queued_requests # <<>>
    /\ PendingAll(Cur) # {}

\* the number of jobs worker w held just before the k-th message of the
\* handler run that ended in s: within one handler every removal from a
\* pending set comes before the first EnqueueExecution
PendingBefore(s, w, k) ==
    Cardinality(s.workers[w].pending)
    - Cardinality({i \in k..Len(s.msgs) :
                      /\ s.msgs[i].kind = "EnqueueExecution"
                      /\ s.msgs[i].worker = w})

\* worker t has a smaller pending / slots ratio than worker w before the
\* k-th message, or the same ratio and the smaller WorkerId
LeastLoadedBefore(s, t, w, k) ==
    \/ PendingBefore(s, t, k) * s.workers[w].slots
          < PendingBefore(s, w, k) * s.workers[t].slots
    \/ /\ PendingBefore(s, t, k) * s.workers[w].slots
             = PendingBefore(s, w, k) * s.workers[t].slots
       /\ t < w

C4Post(s) ==
    \A k \in DOMAIN s.msgs :
        s.msgs[k].kind = "EnqueueExecution" =>
            /\ s.msgs[k].worker \in DOMAIN s.workers
            /\ \A w \in DOMAIN s.workers \ {s.msgs[k].worker} :
                  LeastLoadedBefore(s, s.msgs[k].worker, w, k)

\* the scheduler after handling the messages inputs one after the other
RECURSIVE HandleAll(_, _)
HandleAll(s, inputs) ==
    IF inputs = <<>> THEN s
    ELSE HandleAll(receive_message(s, Head(inputs)), Tail(inputs))

\* workers W1 (2 slots), W2 (2 slots), W3 (3 slots) connect, then a client
\* submits seven jobs without layers
C4ExampleInputs ==
    <<MsgWorkerConnected(1, 2), MsgWorkerConnected(2, 2), MsgWorkerConnected(3, 3),
      MsgClientConnected(1)>>
    \o [k \in 1..7 |-> MsgExecutionRequest(1, k, <<>>)]

C4ExampleTargets ==
    [i \in DOMAIN Enqueues(HandleAll(NewScheduler, C4ExampleInputs).msgs) |->
        Enqueues(HandleAll(NewScheduler, C4ExampleInputs).msgs)[i].worker]

\* C4: every EnqueueExecution, from the dispatch loop and from the
\* worker-result path alike, goes to a connected worker whose ratio
\* pending / slots just before that dispatch is minimal among the connected
\* workers, the smallest WorkerId winning a tie; W1 (2 slots), W2 (2 slots)
\* and W3 (3 slots) receive seven jobs in the order W1, W2, W3, W3, W1, W2, W3.
C4_DispatchToLeastLoadedWorker ==
    /\ \A msg \in DispatchMessages : Arrives(msg) => C4Post(After(msg))
    /\ C4ExampleTargets = <<1, 2, 3, 3, 1, 2, 3>>

\* two workers with different slot counts are full, a job waits in the run
\* queue, and a worker result makes room for it
C4_Witness ==
    \E w1, w2 \in DOMAIN workers :
        /\ workers[w1].slots # workers[w2].slots
        /\ queued_requests # <<>>
        /\ \E e \in workers[w1].pending :
              Enqueues(After(MsgWorkerResponse(w1, e, 1)).msgs) # <<>>

C5Post(msg, s) ==
    \A i \in DOMAIN Enqueues(s.msgs) :
        /\ \A k \in DOMAIN Enqueues(s.msgs) :
              k # i => Enqueues(s.msgs)[k].eid # Enqueues(s.msgs)[i].eid
        /\ Enqueues(s.msgs)[i].eid \notin responded \cup RespondedIn(s.msgs)
        /\ \/ enqueuedTo[Enqueues(s.msgs)[i].eid] = 0
           \/ enqueuedTo[Enqueues(s.msgs)[i].eid] \in goneWorkers
           \/ /\ msg.type = "WorkerDisconnected"
              /\ enqueuedTo[Enqueues(s.msgs)[i].eid] = msg.id

\* C5: a job is in the pending set of at most one worker; a handler sends
\* EnqueueExecution for a job at most once, and for a job that was enqueued
\* before only if the worker that received the previous EnqueueExecution
\* has disconnected (earlier, or in the WorkerDisconnected being handled);
\* a job whose result was forwarded to its client is not enqueued again.
C5_OneWorkerAtATime ==
    /\ \A w1, w2 \in DOMAIN workers :
          w1 # w2 => workers[w1].pending \cap workers[w2].pending = {}
    /\ \A msg \in Messages : Arrives(msg) => C5Post(msg, After(msg))

\* a worker disconnects and one of its jobs is enqueued at another worker
C5_Witness ==
    \E w \in DOMAIN workers :
        \E m \in Range(Enqueues(After(MsgWorkerDisconnected(w)).msgs)) :
            /\ enqueuedTo[m.eid] = w
            /\ m.worker # w

C6Post(msg, s) ==
    /\ Len(MsgsOfKind(s.msgs, "ExecutionResponse")) <= 1
    /\ MsgsOfKind(s.msgs, "ExecutionResponse") # <<>> =>
          /\ msg.type = "WorkerResponse"
          /\ msg.wid \in DOMAIN workers
          /\ msg.eid \in workers[msg.wid].pending
          /\ HasExecution(Cur, msg.eid)
          /\ msg.eid \notin responded
          /\ MsgsOfKind(s.msgs, "ExecutionResponse")[1]
                = ExecutionResponse(msg.eid[1], msg.eid[2], msg.result)

\* C6: a handler sends at most one ExecutionResponse, and only while handling
\* a worker result for a job in the pending set of the worker that sent it;
\* the response goes to the client that submitted the job, carries the
\* job's ClientExecutionId and the worker's result unchanged, and no
\* response was sent for that job before.
C6_OneResponseToTheOwner ==
    \A msg \in Messages : Arrives(msg) => C6Post(msg, After(msg))

\* a worker reports a result for one of its pending jobs and the client is
\* sent that result
C6_Witness ==
    \E w \in DOMAIN workers :
        \E e \in workers[w].pending :
            ExecutionResponse(e[1], e[2], MaxResult)
                \in Range(After(MsgWorkerResponse(w, e, MaxResult)).msgs)

\* the number of jobs of connected clients that hold digest d as acquired
Holders(s, d) ==
    Cardinality({e \in ExecutionIds :
                    HasExecution(s, e) /\ d \in GetExecution(s, e).acquired_artifacts})

\* C7 as stated: every cached digest with refcount r > 0 has exactly r
\* (job, digest) pairs with the digest in the job's acquired set.
C7_RefcountEqualsHolders ==
    \A d \in DOMAIN cache.entries :
        cache.entries[d] > 0 => cache.entries[d] = Holders(Cur, d)

\* C7, amended: every cached digest with refcount r > 0 for which no
\* DecrementRefcount message has been handled has exactly r (job, digest)
\* pairs with the digest in the job's acquired set.
C7_RefcountEqualsHoldersUntilReleased ==
    \A d \in DOMAIN cache.entries :
        released[d] = 0 /\ cache.entries[d] > 0 => cache.entries[d] = Holders(Cur, d)

\* two jobs hold a digest for which no DecrementRefcount was handled, after a
\* DecrementRefcount for another digest
C7_Witness ==
    \E d, d2 \in Digests :
        /\ released[d] = 0
        /\ released[d2] > 0
        /\ d \in DOMAIN cache.entries
        /\ cache.entries[d] = 2
        /\ Holders(Cur, d) = 2

\* the number of messages in ms equal to m
CountOf(ms, m) == Cardinality({i \in DOMAIN ms : ms[i] = m})

C8Post(c, s) ==
    /\ ~s.panicked
    /\ \A w \in WorkerIds, e \in ExecutionIds :
          CountOf(s.msgs, CancelExecution(w, e))
             = IF w \in DOMAIN workers /\ e \in workers[w].pending /\ e[1] = c
               THEN 1 ELSE 0
    /\ \A e \in Range(s.queued_requests) \cup PendingAll(s) : e[1] # c
    /\ \A d \in Digests :
          CountOf(s.msgs, CacheDecrementRefcount(d))
             = Cardinality({e \in ExecutionIds :
                               /\ e[1] = c
                               /\ HasExecution(Cur, e)
                               /\ d \in GetExecution(Cur, e).acquired_artifacts})

\* C8: handling ClientDisconnected(c) for a connected client c sends one
\* CancelExecution for each job of c in a worker's pending set, to that
\* worker, and no other CancelExecution (none for jobs of other clients, of
\* c's queued or waiting jobs); afterwards no job of c is in the run queue or
\* in a pending set; and the cache is asked to decrement each digest once
\* for every job of c that had acquired it.
C8_ClientDisconnectCancelsAndReleases ==
    \A c \in DOMAIN clients :
        C8Post(c, After(MsgClientDisconnected(c)))

\* a client with a pending job that holds a digest, and with a queued job,
\* disconnects and the worker is sent a CancelExecution
C8_Witness ==
    \E c \in DOMAIN clients :
        /\ \E e \in PendingAll(Cur) :
              e[1] = c /\ GetExecution(Cur, e).acquired_artifacts # {}
        /\ \E e \in Range(queued_requests) : e[1] = c
        /\ MsgsOfKind(After(MsgClientDisconnected(c)).msgs, "CancelExecution") # <<>>

C9Post(msg, s) ==
    \A m \in Range(s.msgs) :
        m.kind \in ClientMessageKinds =>
            /\ m.client \notin goneClients
            /\ ~(msg.type = "ClientDisconnected" /\ m.client = msg.id)

\* C9: no handler that runs after ClientDisconnected(c), and not the handler
\* of ClientDisconnected(c) itself, sends an ExecutionResponse,
\* TransferArtifact or StatisticsResponse to c.
C9_NothingSentToDepartedClient ==
    \A msg \in Messages : Arrives(msg) => C9Post(msg, After(msg))

\* a client disconnects while one of its jobs is pending at a worker, and
\* the worker's result for that job then makes the scheduler send nothing
C9_Witness ==
    \E c \in DOMAIN clients, w \in DOMAIN workers :
        \E e \in workers[w].pending :
            /\ e[1] = c
            /\ ~After(MsgClientDisconnected(c)).panicked
            /\ receive_message([After(MsgClientDisconnected(c)) EXCEPT !.msgs = <<>>],
                               MsgWorkerResponse(w, e, 1)).msgs = <<>>

\* the jobs the handler run that ended in s enqueued at workers, in order,
\* followed by the run queue it left
DispatchOrder(s) ==
    [i \in DOMAIN Enqueues(s.msgs) |-> Enqueues(s.msgs)[i].eid] \o s.queued_requests

C10Post(w, s) ==
    /\ ~s.panicked
    /\ w \notin DOMAIN s.workers
    /\ \A e \in workers[w].pending : e \in Range(s.queued_requests) \cup PendingAll(s)
    /\ Len(DispatchOrder(s)) = Cardinality(workers[w].pending) + Len(queued_requests)
    /\ Range(SubSeq(DispatchOrder(s), 1, Cardinality(workers[w].pending)))
          = workers[w].pending
    /\ SubSeq(DispatchOrder(s), Cardinality(workers[w].pending) + 1,
              Len(DispatchOrder(s))) = queued_requests

\* C10: handling WorkerDisconnected(w) for a connected worker w loses no
\* job: each job of w's pending set is afterwards in the run queue or in
\* another worker's pending set; the jobs of w come before every job that
\* was in the run queue, which keeps its order, both in what the handler
\* dispatches and in the run queue it leaves.
C10_WorkerDisconnectRequeuesInFront ==
    \A w \in DOMAIN workers :
        C10Post(w, After(MsgWorkerDisconnected(w)))

\* a worker with pending jobs disconnects while jobs wait in the run queue
C10_Witness ==
    \E w \in DOMAIN workers :
        /\ workers[w].pending # {}
        /\ queued_requests # <<>>
        /\ Len(After(MsgWorkerDisconnected(w)).queued_requests) > Len(queued_requests)

\* the executions of connected clients
LiveJobs(s) == {e \in ExecutionIds : HasExecution(s, e)}

\* the layer digests of a job's details
LayersOf(execution) == Range(execution.details)

\* C11: for every job held in a client record, in every state the scheduler
\* is left in by a handler: acquired and missing are disjoint, together
\* they are the layer digests of the job's details, and the job is in the
\* run queue or a pending set if and only if its missing set is empty.
C11_AcquiredMissingPartitionLayers ==
    \A e \in LiveJobs(Cur) :
        /\ GetExecution(Cur, e).acquired_artifacts
              \cap GetExecution(Cur, e).missing_artifacts = {}
        /\ GetExecution(Cur, e).acquired_artifacts
              \cup GetExecution(Cur, e).missing_artifacts = LayersOf(GetExecution(Cur, e))
        /\ (e \in Range(queued_requests) \cup PendingAll(Cur))
              <=> (GetExecution(Cur, e).missing_artifacts = {})

\* a job that has acquired one layer and still misses another, next to a
\* job that misses nothing
C11_Witness ==
    /\ \E e \in LiveJobs(Cur) :
          /\ GetExecution(Cur, e).acquired_artifacts # {}
          /\ GetExecution(Cur, e).missing_artifacts # {}
    /\ \E e \in LiveJobs(Cur) :
          /\ GetExecution(Cur, e).missing_artifacts = {}
          /\ GetExecution(Cur, e).acquired_artifacts # {}

\* the jobs that miss digest d, and those that miss nothing but d
MissingDigest(s, d) ==
    {e \in LiveJobs(s) : d \in GetExecution(s, e).missing_artifacts}

MissingOnly(s, d) ==
    {e \in LiveJobs(s) : GetExecution(s, e).missing_artifacts = {d}}

C12Post(d, s) ==
    /\ ~s.panicked
    /\ LiveJobs(s) = LiveJobs(Cur)
    /\ \A e \in LiveJobs(Cur) :
          IF e \in MissingDigest(Cur, d)
          THEN /\ d \notin GetExecution(Cur, e).acquired_artifacts
               /\ GetExecution(s, e).missing_artifacts
                     = GetExecution(Cur, e).missing_artifacts \ {d}
               /\ GetExecution(s, e).acquired_artifacts
                     = GetExecution(Cur, e).acquired_artifacts \cup {d}
               /\ GetExecution(s, e).details = GetExecution(Cur, e).details
          ELSE GetExecution(s, e) = GetExecution(Cur, e)
    /\ Len(DispatchOrder(s)) = Len(queued_requests) + Cardinality(MissingOnly(Cur, d))
    /\ SubSeq(DispatchOrder(s), 1, Len(queued_requests)) = queued_requests
    /\ Range(SubSeq(DispatchOrder(s), Len(queued_requests) + 1, Len(DispatchOrder(s))))
          = MissingOnly(Cur, d)

\* C12: handling GotArtifact(d) moves d from missing to acquired in exactly
\* the live jobs that had d in their missing set and changes no other job;
\* each job whose missing set becomes empty is appended once behind the run
\* queue (the handler's dispatches followed by the queue it leaves are the
\* old queue followed by those jobs, each once).
C12_GotArtifactMovesDigest ==
    \A msg \in Messages :
        msg.type = "GotArtifact" /\ Arrives(msg) => C12Post(msg.digest, After(msg))

\* GotArtifact(d) arrives while one job misses only d and another misses d
\* and a second digest
C12_Witness ==
    \E d \in Digests :
        /\ MissingOnly(Cur, d) # {}
        /\ MissingDigest(Cur, d) \ MissingOnly(Cur, d) # {}
        /\ ~After(MsgGotArtifact(d, {})).panicked

\* the messages sent to clients, workers and artifact fetchers (cache calls
\* left out)
Outbound(ms) ==
    SelectSeq(ms, LAMBDA m : m.kind \in ClientMessageKinds
                                  \cup {"EnqueueExecution", "CancelExecution",
                                        "ToWorkerArtifactFetcher"})

\* msg names a client or worker that is not connected, or connects an id
\* that is connected already
NamesWrongId(msg) ==
    CASE msg.type = "ExecutionRequest" -> msg.cid \notin DOMAIN clients
      [] msg.type = "StatisticsRequest" -> msg.cid \notin DOMAIN clients
      [] msg.type = "ClientDisconnected" -> msg.id \notin DOMAIN clients
      [] msg.type = "WorkerResponse" -> msg.wid \notin DOMAIN workers
      [] msg.type = "WorkerDisconnected" -> msg.id \notin DOMAIN workers
      [] msg.type = "ClientConnected" -> msg.id \in DOMAIN clients
      [] msg.type = "WorkerConnected" -> msg.id \in DOMAIN workers
      [] OTHER -> FALSE

\* C13: an ExecutionRequest, StatisticsRequest or ClientDisconnected naming
\* a client that is not connected, a worker result or WorkerDisconnected
\* naming a worker that is not connected, and a ClientConnected or
\* WorkerConnected for an id that is connected, each make the handler panic
\* before it sends any message.
C13_WrongIdIsFatal ==
    \A msg \in Messages :
        NamesWrongId(msg) => After(msg).panicked /\ Outbound(After(msg).msgs) = <<>>

\* with jobs pending at a worker, a second ClientConnected for a connected
\* client and a StatisticsRequest from an unconnected one both panic
C13_Witness ==
    /\ PendingAll(Cur) # {}
    /\ \E c \in DOMAIN clients : After(MsgClientConnected(c)).panicked
    /\ \E c \in ClientIds \ DOMAIN clients : After(MsgStatisticsRequest(c)).panicked

\* C14: a worker result from a connected worker for a job that is not in
\* that worker's pending set leaves the scheduler as it was (clients,
\* workers with their pending sets and heap positions, run queue, heap and
\* cache) and makes no outbound message and no cache call.
C14_ResultForUnknownJobDropped ==
    \A w \in DOMAIN workers, e \in ClientIds \X Ceids, r \in Results :
        e \notin workers[w].pending => After(MsgWorkerResponse(w, e, r)) = Cur

\* a worker with pending jobs reports a result for a live job that is not
\* among them
C14_Witness ==
    \E w \in DOMAIN workers :
        /\ workers[w].pending # {}
        /\ \E e \in LiveJobs(Cur) \ workers[w].pending :
              After(MsgWorkerResponse(w, e, 1)) = Cur

\* C15 as stated: a result from a worker whose WorkerDisconnected has been
\* handled is dropped without effect and the scheduler goes on.
C15_ResultAfterDisconnectDropped ==
    \A w \in goneWorkers, e \in ClientIds \X Ceids, r \in Results :
        After(MsgWorkerResponse(w, e, r)) = Cur

\* C15, amended: a result from a worker whose WorkerDisconnected has been
\* handled names a worker that is not connected: the handler panics, and no
\* message is sent to any client or worker.
C15_ResultAfterDisconnectIsFatal ==
    \A w \in goneWorkers, e \in ClientIds \X Ceids, r \in Results :
        /\ w \notin DOMAIN workers
        /\ After(MsgWorkerResponse(w, e, r)).panicked
        /\ After(MsgWorkerResponse(w, e, r)).msgs = <<>>

\* a worker has disconnected, a job it had been sent is still live after
\* being re-queued, and the worker's result for it makes the handler panic
C15_Witness ==
    \E e \in LiveJobs(Cur) :
        /\ enqueuedTo[e] \in goneWorkers
        /\ After(MsgWorkerResponse(enqueuedTo[e], e, 1)).panicked

\* C16: output_reader, for a stream that delivers n bytes in total and an
\* inline limit L, whatever the sizes of the single reads, returns None if
\* n = 0, Inline(all n bytes) if 0 < n <= L, and Truncated{first = the first
\* L bytes, truncated = n - L} if n > L (with L = 0 giving an empty first);
\* the bytes kept and the bytes counted as truncated add up to n.
KeptBytes(result) ==
    IF result.kind = "Inline" THEN Len(result.bytes)
    ELSE IF result.kind = "Truncated" THEN Len(result.first) ELSE 0

TruncatedBytes(result) ==
    IF result.kind = "Truncated" THEN result.truncated ELSE 0

C16_OutputReaderResult ==
    (reader.pc = "done" /\ reader.result # OutputErr) =>
        LET n == Len(reader.input)
            L == reader.inline_limit
        IN  /\ n = 0 => reader.result = OutputNone
            /\ (0 < n /\ n <= L) => reader.result = OutputInline(reader.input)
            /\ n > L => reader.result =
                            OutputTruncated(SubSeq(reader.input, 1, L), n - L)
            /\ KeptBytes(reader.result) + TruncatedBytes(reader.result) = n

C16_Witness ==
    /\ reader.pc = "done"
    /\ reader.inline_limit = 2
    /\ reader.result = OutputTruncated(<<1, 2>>, 2)

\* C17: Executor::start returns SystemError when creating a pipe, building
\* the program or argument strings, cloning, reading the exec-result pipe or
\* setting up the output file descriptors fails; it returns ExecutionError
\* when the exec-result pipe delivered bytes; it returns Ok(pid) only if the
\* child was cloned with that pid and the exec-result pipe reached end of
\* file with zero bytes read.
FallibleCalls ==
    {"pipe_stdout", "pipe_stderr", "pipe_exec_result", "program", "arguments",
     "clone", "read_exec_result", "fcntl_stdout", "fcntl_stderr",
     "spawn_stdout", "spawn_stderr"}

FailedCalls(st) == {st.calls[i].call : i \in {j \in 1..Len(st.calls) : ~st.calls[j].ok}}

HasNul(str) == \E i \in 1..Len(str) : str[i] = 0

C17_StartResultClassification ==
    starter.pc = "done" =>
        /\ \A call \in FallibleCalls :
              call \in FailedCalls(starter) => starter.result.kind = "SystemError"
        /\ (HasNul(starter.program)
              \/ \E i \in 1..Len(starter.arguments) : HasNul(starter.arguments[i]))
           => starter.result.kind = "SystemError"
        /\ (FailedCalls(starter) = {} /\ starter.exec_result_pipe # <<>>)
           => starter.result = StartExecutionError(starter.exec_result_pipe)
        /\ starter.result.kind = "Ok" =>
              /\ starter.child # "none"
              /\ starter.result.pid = starter.child_pid
              /\ starter.child_pid \in Pids
              /\ ExecResultEof(starter)
              /\ starter.exec_result_pipe = <<>>
              /\ [call |-> "read_exec_result", ok |-> TRUE] \in Range(starter.calls)
        /\ starter.result.kind \in {"Ok", "ExecutionError", "SystemError"}

C17_Witness ==
    /\ starter.pc = "done"
    /\ starter.result = StartExecutionError(<<1, 2>>)
    /\ Len(starter.arguments) = 2

\* C18 as stated: while any live job holds a digest as acquired, the cache
\* entry of that digest is present (not evicted) with a refcount above zero,
\* whatever events were handled, DecrementRefcount and GotArtifact with
\* evictions included.
C18_HeldDigestStaysCached ==
    \A d \in Digests :
        Holders(Cur, d) > 0 => (d \in DOMAIN cache.entries /\ cache.entries[d] > 0)

\* C18, amended: while any live job holds a digest as acquired and no
\* DecrementRefcount message for that digest has been handled, the cache
\* entry of the digest is present (not evicted) with a refcount above zero,
\* whatever other events were handled, DecrementRefcount for other digests
\* and GotArtifact with evictions included.
C18_HeldDigestStaysCachedUntilReleased ==
    \A d \in Digests :
        (released[d] = 0 /\ Holders(Cur, d) > 0)
            => (d \in DOMAIN cache.entries /\ cache.entries[d] > 0)

\* a job holds a digest that is cached with a reference, after another
\* digest, still held by a job, was released by DecrementRefcount and then
\* evicted by a GotArtifact
C18_Witness ==
    \E d, d2 \in Digests :
        /\ released[d] = 0
        /\ Holders(Cur, d) > 0
        /\ d \in DOMAIN cache.entries
        /\ released[d2] > 0
        /\ Holders(Cur, d2) > 0
        /\ d2 \notin DOMAIN cache.entries

\* the live jobs of e's client, other than e, whose details equal details
TwinsOf(s, e, details) ==
    {t \in LiveJobs(s) : t # e /\ t[1] = e[1] /\ GetExecution(s, t).details = details}

\* how often e occurs in seq
Occurrences(seq, e) == Cardinality({i \in DOMAIN seq : seq[i] = e})

\* a submission whose details equal those of a live job of the same client,
\* under a ClientExecutionId of its own
C19SubmitPost(msg, s) ==
    (/\ msg.cid \in DOMAIN clients
     /\ msg.ceid \notin DOMAIN clients[msg.cid].executions
     /\ TwinsOf(Cur, <<msg.cid, msg.ceid>>, msg.details) # {}) =>
        /\ ~s.panicked
        /\ HasExecution(s, <<msg.cid, msg.ceid>>)
        /\ GetExecution(s, <<msg.cid, msg.ceid>>).details = msg.details
        /\ \A t \in LiveJobs(Cur) :
              /\ HasExecution(s, t)
              /\ GetExecution(s, t) = GetExecution(Cur, t)
              /\ t \in Range(queued_requests) => Occurrences(DispatchOrder(s), t) = 1
              /\ t \in PendingAll(Cur) =>
                    (t \in PendingAll(s) /\ Occurrences(DispatchOrder(s), t) = 0)
        /\ Occurrences(DispatchOrder(s), <<msg.cid, msg.ceid>>)
              = IF GetExecution(s, <<msg.cid, msg.ceid>>).missing_artifacts = {}
                THEN 1 ELSE 0
        /\ MsgsOfKind(s.msgs, "ExecutionResponse") = <<>>
        /\ MsgsOfKind(s.msgs, "CancelExecution") = <<>>

\* a result for a pending job that has a twin
C19ResponsePost(msg, s) ==
    (/\ msg.wid \in DOMAIN workers
     /\ msg.eid \in workers[msg.wid].pending
     /\ HasExecution(Cur, msg.eid)
     /\ TwinsOf(Cur, msg.eid, GetExecution(Cur, msg.eid).details) # {}) =>
        /\ ~s.panicked
        /\ MsgsOfKind(s.msgs, "ExecutionResponse")
              = <<ExecutionResponse(msg.eid[1], msg.eid[2], msg.result)>>
        /\ MsgsOfKind(s.msgs, "CancelExecution") = <<>>
        /\ ~HasExecution(s, msg.eid)
        /\ \A t \in TwinsOf(Cur, msg.eid, GetExecution(Cur, msg.eid).details) :
              /\ HasExecution(s, t)
              /\ GetExecution(s, t) = GetExecution(Cur, t)
              /\ t \notin RespondedIn(s.msgs)
              /\ t \in PendingAll(Cur) => t \in PendingAll(s)
              /\ t \in Range(queued_requests) => Occurrences(DispatchOrder(s), t) = 1

C19Post(msg, s) ==
    /\ msg.type = "ExecutionRequest" => C19SubmitPost(msg, s)
    /\ msg.type = "WorkerResponse" => C19ResponsePost(msg, s)

\* C19: two submissions from the same client with identical job details
\* under distinct ClientExecutionIds are two independent jobs: the second
\* submission adds a job of its own and leaves the first as it was, each is
\* queued and dispatched once, and a worker's result for one of them is
\* answered with one response under that job's own id while the other job
\* stays live, unanswered and where it was.
C19_IdenticalJobsAreIndependent ==
    \A msg \in Messages : Arrives(msg) => C19Post(msg, After(msg))

\* two jobs of one client with the same non-empty details are both pending
\* at workers, and the result for one of them is answered on its own
C19_Witness ==
    \E w \in DOMAIN workers :
        \E e \in workers[w].pending :
            /\ HasExecution(Cur, e)
            /\ GetExecution(Cur, e).details # <<>>
            /\ TwinsOf(Cur, e, GetExecution(Cur, e).details) \cap PendingAll(Cur) # {}
            /\ RespondedIn(After(MsgWorkerResponse(w, e, MaxResult)).msgs) = {e}

\* what a finished visitor call has contributed to the process exit code:
\* the code it added, 0 if it added none
Contribution(v) == IF v.added = <<>> THEN 0 ELSE v.added[Len(v.added)].exit_code

\* C20 as stated: the client's contribution to the process exit code for one
\* job is 0 (nothing) for Exited(0), the job's own code for Exited(code # 0),
\* 1 (FAILURE) for a signaled job and 2 for a job that ended in a system
\* error.
C20_ExitCodeContribution ==
    visit.pc = "done" =>
        /\ Len(visit.added) <= 1
        /\ visit.result.kind = "Exited" => Contribution(visit) = visit.result.code
        /\ visit.result.kind = "Signaled" => Contribution(visit) = 1
        /\ visit.result.kind = "SystemError" => Contribution(visit) = 2

\* C20, amended: a visitor call that returns normally contributes 0 for
\* Exited(0) (nothing is added, or in cargo-maelstrom the code 0), the job's
\* own code for Exited(code # 0), and 1 (FAILURE) for a signaled job, a
\* timed-out job, an execution error and a system error alike; the
\* meticulous-client visitor that returns early because writing or flushing
\* the job's output failed contributes nothing.
C20_ExitCodeContributionFailureForErrors ==
    visit.pc = "done" =>
        /\ Len(visit.added) <= 1
        /\ visit.returned = "Ok" =>
              /\ visit.result.kind = "Exited" =>
                    Contribution(visit) = visit.result.code
              /\ (visit.result.kind = "Exited" /\ visit.result.code # 0) =>
                    visit.added = <<ExitCodeFrom(visit.result.code)>>
              /\ visit.result.kind
                    \in {"Signaled", "TimedOut", "ExecutionError", "SystemError"} =>
                    (visit.added = <<ExitCodeFAILURE>> /\ Contribution(visit) = 1)
        /\ visit.returned = "Err" =>
              (visit.program = "meticulous-client" /\ visit.added = <<>>)
        /\ visit.returned \in {"Ok", "Err"}

\* maelstrom-run has handled a job killed by the highest signal number
C20_Witness ==
    /\ visit.pc = "done"
    /\ visit.program = "maelstrom-run"
    /\ visit.result = JobSignaled(MaxSignal)
    /\ visit.added = <<ExitCodeFAILURE>>

\* C21: the scheduler is work-conserving: in the state every handler leaves
\* (a worker result included), if the run queue is not empty then either no
\* worker is connected or every connected worker holds 2 * slots pending
\* jobs.
C21_WorkConserving ==
    queued_requests # <<>> =>
        \/ DOMAIN workers = {}
        \/ \A w \in DOMAIN workers :
              Cardinality(workers[w].pending) = 2 * workers[w].slots

\* jobs wait in the run queue while two workers are both full, after a
\* result was answered
C21_Witness ==
    /\ queued_requests # <<>>
    /\ responded # {}
    /\ \E w1, w2 \in DOMAIN workers :
          /\ w1 # w2
          /\ Cardinality(workers[w1].pending) = 2 * workers[w1].slots
          /\ Cardinality(workers[w2].pending) = 2 * workers[w2].slots

(***************************************************************************)
(* The scheduler under a well-behaved environment, for progress: every      *)
(* message names ids the way the connection layer does (no unknown id, no   *)
(* duplicate connect, no ClientExecutionId in use), jobs have no layers,    *)
(* and a worker that stays connected answers every job it was sent.         *)
(***************************************************************************)
LiveCeids == 1..MaxLiveJobs
LiveEids == ClientIds \X LiveCeids

LiveMessages ==
    {MsgClientConnected(id) : id \in ClientIds}
    \cup {MsgClientDisconnected(id) : id \in ClientIds}
    \cup {MsgExecutionRequest(cid, ceid, <<>>) : cid \in ClientIds, ceid \in LiveCeids}
    \cup {MsgWorkerConnected(id, slots) : id \in WorkerIds, slots \in SlotCounts}
    \cup {MsgWorkerDisconnected(id) : id \in WorkerIds}

WellFormed(msg) ==
    /\ ~NamesWrongId(msg)
    /\ msg.type = "ExecutionRequest" =>
          (numJobs < MaxLiveJobs /\ ~HasExecution(Cur, <<msg.cid, msg.ceid>>))

\* the scheduler task receives a message from a client or worker connection
Deliver(msg) ==
    /\ panicked = FALSE
    /\ WellFormed(msg)
    /\ \E s \in {After(msg)} : Commit(msg, s)

\* worker w reports the result of job e, which it was sent and has not
\* been told to cancel
Answer(w, e) ==
    /\ panicked = FALSE
    /\ w \in DOMAIN workers
    /\ e \in workers[w].pending
    /\ \E s \in {After(MsgWorkerResponse(w, e, 1))} :
          Commit(MsgWorkerResponse(w, e, 1), s)

NextLive ==
    \/ \E msg \in LiveMessages : Deliver(msg)
    \/ \E w \in WorkerIds, e \in LiveEids : Answer(w, e)

\* Answer(w, e) can happen: ENABLED <<Answer(w, e)>>_vars
CanAnswer(w, e) ==
    /\ panicked = FALSE
    /\ w \in DOMAIN workers
    /\ e \in workers[w].pending

\* the enabling condition of Answer, as SpecLive's fairness uses it
CanAnswerIsEnabled ==
    \A w \in WorkerIds, e \in LiveEids :
        CanAnswer(w, e) <=> ENABLED <<Answer(w, e)>>_vars

\* Every job sent to a worker that stays connected is eventually answered:
\* weak fairness of each Answer(w, e), WF_vars(Answer(w, e)), written out
\* with the enabling condition CanAnswer(w, e).
SpecLive ==
    /\ Init
    /\ [][NextLive]_vars
    /\ \A w \in WorkerIds, e \in LiveEids :
          ([]<>(~CanAnswer(w, e))) \/ ([]<><<Answer(w, e)>>_vars)

\* C22: when every job sent to a worker that stays connected is eventually
\* answered (the fairness of SpecLive), every job with nothing missing is
\* eventually dispatched and eventually answered, unless its client
\* disconnects or the scheduler is left without any worker; so a job whose
\* client stays connected is answered once a worker is connected for good.
\* A job that was answered is no longer held, so it is answered once.
C22_JobEventuallyAnswered ==
    /\ \A e \in LiveEids :
          HasExecution(Cur, e)
              ~> (enqueuedTo[e] # 0 \/ e[1] \notin DOMAIN clients \/ DOMAIN workers = {})
    /\ \A e \in LiveEids :
          HasExecution(Cur, e)
              ~> (e \in responded \/ e[1] \notin DOMAIN clients \/ DOMAIN workers = {})
    /\ [](LiveJobs(Cur) \cap responded = {})

\* a job was answered after a worker went away, while another job waits in
\* the run queue behind a full worker
C22_Witness ==
    /\ responded # {}
    /\ goneWorkers # {}
    /\ queued_requests # <<>>
    /\ DOMAIN workers # {}

(***************************************************************************)
(* C23: a digest that a job is missing is being uploaded by a connected     *)
(* client.                                                                  *)
(***************************************************************************)
\* C23 as stated: whenever a job held by the scheduler has digest d in its
\* missing set, at least one connected client has been sent
\* TransferArtifact(d) for the outstanding fetch, also after the client that
\* was asked to upload d has disconnected before uploading.
C23_MissingDigestHasAskedClient ==
    \A e \in LiveJobs(Cur) :
        \A d \in GetExecution(Cur, e).missing_artifacts : asked[d] # {}

(***************************************************************************)
(* SpecRequeue: the scheduler with the order kept in which each worker's    *)
(* pending jobs were enqueued to it.                                        *)
(***************************************************************************)
RequeueMessages ==
    {msg \in Messages :
        /\ msg.type \in {"ClientConnected", "ClientDisconnected", "ExecutionRequest",
                         "WorkerConnected", "WorkerDisconnected", "WorkerResponse",
                         "GotArtifact"}
        /\ msg.type = "GotArtifact" => msg.victims = {}}

\* one turn of the scheduler task's loop, the order of dispatch recorded
Ordered(msg) ==
    /\ panicked = FALSE
    /\ msg.type = "ExecutionRequest" => numJobs < MaxJobs
    /\ \E s \in {After(msg)} : CommitOrdered(msg, s)

NextRequeue == \E msg \in RequeueMessages : Ordered(msg)

SpecRequeue == Init /\ [][NextRequeue]_vars

\* dispatched[w] lists exactly the jobs pending at w
DispatchedIsPending ==
    \A w \in WorkerIds :
        /\ Range(dispatched[w]) = IF w \in DOMAIN workers THEN workers[w].pending ELSE {}
        /\ Len(dispatched[w]) = Cardinality(Range(dispatched[w]))

\* the first n jobs that the handler run that ended in s dispatched or left
\* in the run queue
FrontOf(s, n) == SubSeq(DispatchOrder(s), 1, n)

\* C24 as stated: on WorkerDisconnected(w) the jobs of w's pending set go
\* to the front of the run queue in the order in which they were
\* dispatched to w.
C24_RequeuedInDispatchOrder ==
    \A w \in DOMAIN workers :
        FrontOf(After(MsgWorkerDisconnected(w)), Len(dispatched[w])) = dispatched[w]

\* C24: on WorkerDisconnected(w) the jobs of w's pending set go to the
\* front of the run queue in ascending ExecutionId order (ClientId, then
\* ClientExecutionId), whatever the order in which they were dispatched
\* to w, for jobs of one client and of several clients alike.
C24_RequeuedInExecutionIdOrder ==
    \A w \in DOMAIN workers :
        FrontOf(After(MsgWorkerDisconnected(w)), Cardinality(workers[w].pending))
            = SortEids(workers[w].pending)

\* a worker holds jobs of two clients that were dispatched to it in another
\* order than that of their ExecutionIds, and disconnects
C24_Witness ==
    \E w \in DOMAIN workers :
        /\ \E a, b \in workers[w].pending : a[1] # b[1]
        /\ dispatched[w] # SortEids(workers[w].pending)
        /\ ~After(MsgWorkerDisconnected(w)).panicked

(***************************************************************************)
(* C25: a worker result hands the next queued job to the same worker.       *)
(***************************************************************************)
\* the heap of s holds exactly the connected workers, each at its
\* heap_index, and no worker is less than its parent
HeapValid(s) ==
    /\ Range(s.worker_heap) = DOMAIN s.workers
    /\ Len(s.worker_heap) = Cardinality(DOMAIN s.workers)
    /\ \A i \in DOMAIN s.worker_heap :
          /\ s.workers[s.worker_heap[i]].heap_index = i
          /\ i > 1 => ~is_element_less_than(s.workers, s.worker_heap[i],
                                            s.worker_heap[i \div 2])

C25Post(msg, s) ==
    /\ ~s.panicked
    /\ queued_requests # <<>> =>
          /\ Len(Enqueues(s.msgs)) = 1
          /\ Enqueues(s.msgs)[1].eid = Head(queued_requests)
          /\ Enqueues(s.msgs)[1].worker = msg.wid
          /\ s.queued_requests = Tail(queued_requests)
          /\ Cardinality(s.workers[msg.wid].pending)
                = Cardinality(workers[msg.wid].pending)
    /\ queued_requests = <<>> =>
          /\ Enqueues(s.msgs) = <<>>
          /\ Cardinality(s.workers[msg.wid].pending)
                = Cardinality(workers[msg.wid].pending) - 1
          /\ HeapValid(s)

\* C25: on a worker result for a job in the pending set of worker w: if
\* the run queue is non-empty, exactly one EnqueueExecution is sent, for
\* the head of the run queue and to w, and w holds as many jobs as before;
\* if the run queue is empty, no EnqueueExecution is sent, w holds one job
\* less, and the heap is valid afterwards.
C25_ResultRefillsSameWorker ==
    \A msg \in Messages :
        (/\ msg.type = "WorkerResponse"
         /\ Arrives(msg)
         /\ msg.wid \in DOMAIN workers
         /\ msg.eid \in workers[msg.wid].pending) => C25Post(msg, After(msg))

\* a worker that is not at the root of the heap answers a job while the run
\* queue is empty, and moves to the root
C25_Witness ==
    \E w \in DOMAIN workers :
        /\ queued_requests = <<>>
        /\ workers[w].heap_index > 1
        /\ \E e \in workers[w].pending :
              After(MsgWorkerResponse(w, e, 1)).workers[w].heap_index = 1

(***************************************************************************)
(* C26: each acquired digest of a job is released once, when the job goes.  *)
(***************************************************************************)
\* the number of cache.decrement_refcount(d) calls among the calls ms
DecrementCalls(ms, d) ==
    Len(SelectSeq(ms, LAMBDA m : m.kind = "CacheDecrementRefcount" /\ m.digest = d))

\* the jobs that the handler run that ended in s removed from their client
RemovedJobs(s) == LiveJobs(Cur) \ LiveJobs(s)

C26Removed(msg, s, removed) ==
    /\ removed # {} =>
          \/ /\ msg.type = "WorkerResponse"
             /\ removed = {msg.eid}
          \/ /\ msg.type = "ClientDisconnected"
             /\ removed = {e \in LiveJobs(Cur) : e[1] = msg.id}
    /\ \A d \in Digests :
          DecrementCalls(s.msgs, d)
             = Cardinality({e \in removed : d \in GetExecution(Cur, e).acquired_artifacts})
               + (IF msg.type = "DecrementRefcount" /\ msg.digest = d THEN 1 ELSE 0)

C26Post(msg, s) == ~s.panicked => C26Removed(msg, s, RemovedJobs(s))

\* C26: a handler calls cache.decrement_refcount(d) once for each job it
\* removes that has d in its acquired set, and makes no other call on behalf
\* of a job: none for a digest in a missing set, none for a job that stays.
\* A job is removed only by the WorkerResponse that forwards its result or
\* by the ClientDisconnected of its client, so never twice and never by
\* WorkerDisconnected.  The one further call is that of a DecrementRefcount
\* message, for the digest the message names.
C26_ReleaseOncePerAcquiredDigest ==
    \A msg \in Messages : Arrives(msg) => C26Post(msg, After(msg))

\* a client disconnects while one of its jobs holds a digest and another of
\* its jobs still misses a digest
C26_Witness ==
    \E c \in DOMAIN clients :
        /\ \E e \in LiveJobs(Cur) :
              e[1] = c /\ GetExecution(Cur, e).acquired_artifacts # {}
        /\ \E e \in LiveJobs(Cur) :
              e[1] = c /\ GetExecution(Cur, e).missing_artifacts # {}
        /\ \E d \in Digests : DecrementCalls(After(MsgClientDisconnected(c)).msgs, d) > 0

(***************************************************************************)
(* C27: a submit queries the cache per layer and asks for the Get layers.   *)
(***************************************************************************)
\* the layers of details that the cache c answers with Get
LayersToGet(c, details) == SelectSeq(details, LAMBDA d : CacheGetResult(c, d) = "Get")

C27Submit(msg, s, wanted) ==
    /\ MsgsOfKind(s.msgs, "CacheGetArtifact")
          = [i \in DOMAIN msg.details |->
                CacheGetArtifact(<<msg.cid, msg.ceid>>, msg.details[i])]
    /\ MsgsOfKind(s.msgs, "TransferArtifact")
          = [i \in DOMAIN wanted |-> TransferArtifact(msg.cid, wanted[i])]
    /\ \A m \in Range(s.msgs) : m.kind \in ClientMessageKinds => m.client = msg.cid

C27Post(msg, s) ==
    IF msg.type = "ExecutionRequest"
    THEN ~s.panicked => C27Submit(msg, s, LayersToGet(cache, msg.details))
    ELSE MsgsOfKind(s.msgs, "TransferArtifact") = <<>>

\* C27: a submit that is processed queries the cache once per layer, in
\* layer order, and sends TransferArtifact(d) to the submitting client for
\* exactly the layers d whose outcome is Get, in layer order, and nothing to
\* any other client; no other event sends a TransferArtifact.
C27_TransferOnlyForGet ==
    \A msg \in Messages : Arrives(msg) => C27Post(msg, After(msg))

\* a submit with a layer that is being fetched and a layer unknown to the
\* cache is processed and asks the client for the second layer only
C27_Witness ==
    \E msg \in Messages :
        /\ msg.type = "ExecutionRequest"
        /\ Arrives(msg)
        /\ ~After(msg).panicked
        /\ Len(msg.details) = 2
        /\ CacheGetResult(cache, msg.details[1]) = "Wait"
        /\ CacheGetResult(cache, msg.details[2]) = "Get"
        /\ Len(MsgsOfKind(After(msg).msgs, "TransferArtifact")) = 1

(***************************************************************************)
(* C28: the run queue is first in, first out for jobs appended to it.       *)
(***************************************************************************)
\* the jobs of the sequence eids that no worker has been sent yet
NeverEnqueued(eids) == SelectSeq(eids, LAMBDA e : enqueuedTo[e] = 0)

\* the jobs that wait in the run queue without ever having been sent to a
\* worker, and that the handler run that ended in s did not remove
WaitingBefore(s) ==
    SelectSeq(NeverEnqueued(queued_requests), LAMBDA e : HasExecution(s, e))

\* the jobs that handling msg appends to the back of the run queue, in the
\* order it appends them
AppendedBy(msg, s) ==
    IF msg.type = "ExecutionRequest"
    THEN IF GetExecution(s, <<msg.cid, msg.ceid>>).missing_artifacts = {}
         THEN <<<<msg.cid, msg.ceid>>>> ELSE <<>>
    ELSE IF msg.type = "GotArtifact"
    THEN SelectSeq(CacheGotArtifactJobs(cache, msg.digest),
                   LAMBDA e : GetExecution(Cur, e).missing_artifacts = {msg.digest})
    ELSE <<>>

C28Post(msg, s) ==
    ~s.panicked => NeverEnqueued(DispatchOrder(s)) = WaitingBefore(s) \o AppendedBy(msg, s)

\* C28: of the jobs that no worker has been sent yet, a handler dispatches
\* those that waited in the run queue in their queue order, before any job
\* it appends itself, dispatches the jobs it appends in the order it appends
\* them, and leaves the rest in the run queue in that same order. So of two
\* jobs appended to the back of the run queue, by a submit or by GotArtifact,
\* and not removed by a client disconnect, the one appended first gets its
\* first EnqueueExecution first; only jobs that a worker disconnect put back
\* stand in front of them.
C28_RunQueueIsFifo ==
    \A msg \in Messages : Arrives(msg) => C28Post(msg, After(msg))

\* an artifact arrives that makes two jobs runnable while an earlier job,
\* never dispatched, waits in the run queue
C28_Witness ==
    \E msg \in Messages :
        /\ msg.type = "GotArtifact"
        /\ Arrives(msg)
        /\ ~After(msg).panicked
        /\ NeverEnqueued(queued_requests) # <<>>
        /\ Len(AppendedBy(msg, After(msg))) = 2

(***************************************************************************)
(* C29: a client disconnect leaves the other clients alone.                 *)
(***************************************************************************)
C29Post(c, s) ==
    /\ ~s.panicked
    /\ s.clients = [k \in DOMAIN clients \ {c} |-> clients[k]]
    /\ DispatchOrder(s) = SelectSeq(queued_requests, LAMBDA e : e[1] # c)
    /\ DOMAIN s.workers = DOMAIN workers
    /\ \A w \in DOMAIN workers :
          /\ s.workers[w].slots = workers[w].slots
          /\ s.workers[w].pending
                = {e \in workers[w].pending : e[1] # c} \cup Range(EnqueuedAt(s.msgs, w))
    /\ \A m \in Range(s.msgs) :
          /\ m.kind \notin ClientMessageKinds
          /\ m.kind = "CancelExecution" =>
                m.eid[1] = c /\ m.eid \in workers[m.worker].pending
    /\ Enqueues(s.msgs) # <<>> => MsgsOfKind(s.msgs, "CancelExecution") # <<>>

\* C29: handling ClientDisconnected(c) for a connected client c leaves the
\* record of every other client as it was, with the acquired and missing
\* sets of its jobs; keeps the other clients' jobs of the run queue in their
\* order, dispatched or still queued; removes no pending entry of another
\* client and sends CancelExecution only for pending jobs of c; sends
\* nothing to any client; and enqueues jobs only when a cancelled job of c
\* has freed capacity.
C29_ClientDisconnectLeavesOthersIntact ==
    \A c \in DOMAIN clients : C29Post(c, After(MsgClientDisconnected(c)))

\* a client disconnects while one of its jobs and a job of another client
\* are pending, and a queued job of the other client takes the freed place
C29_Witness ==
    \E c \in DOMAIN clients :
        /\ \E e \in PendingAll(Cur) : e[1] = c
        /\ \E e \in PendingAll(Cur) : e[1] # c
        /\ \E e \in Range(queued_requests) : e[1] # c
        /\ Enqueues(After(MsgClientDisconnected(c)).msgs) # <<>>

(***************************************************************************)
(* C30: which inbound events are fatal.                                     *)
(***************************************************************************)
\* the layer list names the same digest more than once
HasDuplicateLayer(details) ==
    \E i, j \in DOMAIN details : i # j /\ details[i] = details[j]

\* msg is a submit whose ClientExecutionId the client has in use
ReusesExecutionId(msg) ==
    msg.type = "ExecutionRequest" /\ HasExecution(Cur, <<msg.cid, msg.ceid>>)

\* C30 as stated: the only fatal inbound events are those naming an unknown
\* id and duplicate connects; a submit from a connected client with a
\* ClientExecutionId that is not in use is processed without a panic,
\* whatever its layer list (empty, or with the same digest more than once)
\* and whatever the cache answers.
C30_OnlyWrongIdsAreFatal ==
    \A msg \in Messages :
        (Arrives(msg) /\ After(msg).panicked) =>
            NamesWrongId(msg) \/ ReusesExecutionId(msg)

\* the panics of the scheduler: wrong ids, a ClientExecutionId in use, and a
\* submit whose layer list names a digest twice
FatalEvents ==
    \A msg \in Messages :
        Arrives(msg) =>
            (After(msg).panicked <=>
                \/ NamesWrongId(msg)
                \/ ReusesExecutionId(msg)
                \/ msg.type = "ExecutionRequest" /\ HasDuplicateLayer(msg.details))

(***************************************************************************)
(* C31: the worker heap after every event.                                  *)
(***************************************************************************)
\* C31: in every state the scheduler is left in by a handler, the heap
\* holds each connected worker exactly once and no other worker, each
\* worker's heap_index is its position in the heap, no worker is less than
\* its parent under is_element_less_than, and so the root is a worker that
\* no other worker is less than.
C31_HeapHoldsConnectedWorkersInOrder ==
    /\ HeapValid(Cur)
    /\ worker_heap # <<>> =>
          \A w \in DOMAIN workers \ {worker_heap[1]} :
              ~is_element_less_than(workers, w, worker_heap[1])

\* after a client disconnect, the worker with the larger id is at the root
\* of a heap of two workers, the other one holding more jobs per slot
C31_Witness ==
    /\ goneClients # {}
    /\ Len(worker_heap) = 2
    /\ worker_heap[1] > worker_heap[2]
    /\ workers[worker_heap[2]].pending # {}

(***************************************************************************)
(* SpecOrder: three workers with sampled slot and pending counts are        *)
(* compared pairwise, then tested for being full.                           *)
(***************************************************************************)
InitOrder ==
    /\ SchedulerInit
    /\ reader = IdleReader
    /\ starter = IdleStart
    /\ visit = IdleVisit
    /\ order \in {NewOrder(b, ws) :
                     b \in Builds,
                     ws \in [OrderIds -> {SampleWorker(sl, n) :
                                             sl \in SlotSamples, n \in PendingSamples}]}
    /\ reaper = IdleReaper

CompareWorkers ==
    /\ order.pc = "compare"
    /\ order' = [order EXCEPT
                    !.pc = "full",
                    !.less = [p \in OrderPairs |->
                                 compare_workers(order.build, order.ws, p[1], p[2])]]
    /\ UNCHANGED <<schedulerVars, reader, starter, visit, reaper>>

TestFull ==
    /\ order.pc = "full"
    /\ order' = [order EXCEPT
                    !.pc = "done",
                    !.full = [w \in OrderIds |-> test_full(order.build, order.ws[w])]]
    /\ UNCHANGED <<schedulerVars, reader, starter, visit, reaper>>

NextOrder == CompareWorkers \/ TestFull

SpecOrder == InitOrder /\ [][NextOrder]_vars

\* pending_a / slots_a < pending_b / slots_b as rationals, the smaller id
\* winning a tie
RationalLess(ws, a, b) ==
    \/ Cardinality(ws[a].pending) * ws[b].slots < Cardinality(ws[b].pending) * ws[a].slots
    \/ /\ Cardinality(ws[a].pending) * ws[b].slots = Cardinality(ws[b].pending) * ws[a].slots
       /\ a < b

\* C32 as stated: for workers with any slot and pending counts of the
\* machine word, no product pending * slots or 2 * slots overflows (no
\* panic, no wrapped value), is_element_less_than(a, b) is the exact
\* comparison of (pending_a / slots_a, a) with (pending_b / slots_b, b),
\* and it is a strict total order.
C32_OrderingIsExact ==
    order.pc = "done" =>
        /\ \A w \in OrderIds :
              /\ ~UsizeMulOverflows(2, order.ws[w].slots)
              /\ order.full[w] # "panic"
        /\ \A p \in OrderPairs :
              /\ ~UsizeMulOverflows(Cardinality(order.ws[p[1]].pending), order.ws[p[2]].slots)
              /\ order.less[p] # "panic"
              /\ order.less[p] = "less" <=> RationalLess(order.ws, p[1], p[2])
              /\ order.less[p] = "less" <=> order.less[<<p[2], p[1]>>] # "less"
        /\ \A a, b, c \in OrderIds :
              (a # b /\ b # c /\ a # c
               /\ order.less[<<a, b>>] = "less" /\ order.less[<<b, c>>] = "less")
                  => order.less[<<a, c>>] = "less"

\* C33 as stated: the completion callbacks follow the return value of
\* Executor::start: once it has returned Ok(pid), a reader task was spawned
\* for stdout and for stderr, and each callback is invoked exactly once, by
\* its task when it ends, never twice; once it has returned ExecutionError
\* or SystemError, neither callback is invoked, no reader task being left
\* that could invoke one.
C33_CallbacksFollowResult ==
    starter.pc = "done" =>
        /\ starter.result.kind = "Ok" =>
              \A stream \in OutputStreams :
                  /\ stream \in starter.spawned
                  /\ starter.invoked[stream] <= 1
                  /\ (starter.invoked[stream] = 0) <=> (stream \in starter.tasks)
        /\ starter.result.kind \in {"ExecutionError", "SystemError"} =>
              \A stream \in OutputStreams :
                  /\ starter.invoked[stream] = 0
                  /\ stream \notin starter.tasks

(***************************************************************************)
(* Executor::start with a kernel that completes a read that can complete:   *)
(* once the exec-result pipe is at end of file, the blocking read_to_end    *)
(* returns.                                                                 *)
(***************************************************************************)
SpecStartLive ==
    InitStart /\ [][NextStart]_vars /\ WF_vars(ReadExecResult(TRUE))

ReadingExecResult == starter.pc = "read_exec_result"

ChildIsThrough == starter.pc # "idle" /\ starter.child \in {"execed", "exited"}

\* C34: when the parent is in the blocking read of the exec-result pipe it
\* holds the write end of none of the three pipes (it dropped them before),
\* and once the child has exec'ed or has written its error record and
\* exited, the read is at end of file and returns: the parent leaves the read.
C34_ExecResultReadTerminates ==
    /\ [](ReadingExecResult =>
            /\ starter.parent_write_ends = {}
            /\ ChildIsThrough => ExecResultEof(starter))
    /\ (ReadingExecResult /\ ChildIsThrough) ~> ~ReadingExecResult

C34_Witness ==
    /\ starter.pc = "fcntl_stdout"
    /\ starter.child = "execed"
    /\ starter.parent_write_ends = {}
    /\ starter.exec_result_buf = <<>>


(***************************************************************************)
(* reaper::main as a state machine: every dummy pid, every outcome of       *)
(* waitid and every answer of the callback, for MaxWaits turns.             *)
(***************************************************************************)
InitReaper ==
    /\ SchedulerInit
    /\ reader = IdleReader
    /\ starter = IdleStart
    /\ visit = IdleVisit
    /\ order = IdleOrder
    /\ reaper \in {NewReaper(dummy_pid) : dummy_pid \in {0} \cup Pids}

Waitid(res, instruction) ==
    /\ reaper.pc = "waitid"
    /\ Len(reaper.calls) < MaxWaits
    /\ reaper' = reaper_loop(reaper, res, instruction)
    /\ UNCHANGED <<schedulerVars, reader, starter, visit, order>>

NextReaper ==
    \E res \in WaitResults, instruction \in {"Continue", "Break"} :
        Waitid(res, instruction)

SpecReaper == InitReaper /\ [][NextReaper]_vars

\* the turns of the loop so far
ReaperTurns == 1..Len(reaper.calls)

\* C35: every completed waitid call has been handed to exactly one callback:
\* on_waitid_error for an error, on_dummy_child_termination when the reported
\* pid is the dummy's (never on_child_termination for it), otherwise
\* on_child_termination or on_unexpected_wait_code for the reported pid; the
\* loop has waited again only after a callback that returned Continue, and
\* it has returned exactly when the last callback returned Break.
C35_OneCallbackPerWait ==
    reaper.pc # "idle" =>
        /\ \A i \in ReaperTurns :
              LET res == reaper.calls[i].res
                  call == reaper.calls[i].call
              IN  /\ ~res.ok => call = OnWaitidError(res.err)
                  /\ (res.ok /\ res.pid = reaper.dummy_pid)
                        => call = OnDummyChildTermination
                  /\ (res.ok /\ res.pid # reaper.dummy_pid)
                        => /\ call.cb \in {"on_child_termination",
                                           "on_unexpected_wait_code"}
                           /\ call.pid = res.pid
                  /\ i < Len(reaper.calls) => reaper.calls[i].returned = "Continue"
        /\ reaper.pc = "returned" <=>
              /\ reaper.calls # <<>>
              /\ reaper.calls[Len(reaper.calls)].returned = "Break"
        /\ reaper.pc \in {"waitid", "returned"}

C35_Witness ==
    /\ reaper.pc = "returned"
    /\ Len(reaper.calls) = 2
    /\ reaper.calls[1].call = OnDummyChildTermination
    /\ reaper.calls[1].returned = "Continue"
    /\ reaper.calls[2].call.cb = "on_child_termination"

\* a child's status as a u8: itself within 0..255, 255 otherwise
Clipped(status) == IF 0 <= status /\ status <= 255 THEN status ELSE 255

\* C36: for a terminated child that is not the dummy, the reaper reports
\* Exited(s') when si_code is CLD_EXITED and Signaled(s') when it is
\* CLD_KILLED or CLD_DUMPED, s' being the status clipped to 0..255 (255 for
\* anything outside, never wrapped); any other si_code is reported by
\* on_unexpected_wait_code, which carries no status.
C36_StatusIsClipped ==
    reaper.pc # "idle" =>
        \A i \in ReaperTurns :
            LET res == reaper.calls[i].res
                call == reaper.calls[i].call
            IN  (res.ok /\ res.pid # reaper.dummy_pid) =>
                   /\ res.si_code = CLD_EXITED =>
                         call = OnChildTermination(res.pid, JobExited(Clipped(res.status)))
                   /\ res.si_code \in {CLD_KILLED, CLD_DUMPED} =>
                         call = OnChildTermination(res.pid, JobSignaled(Clipped(res.status)))
                   /\ res.si_code \notin {CLD_EXITED, CLD_KILLED, CLD_DUMPED} =>
                         call = OnUnexpectedWaitCode(res.pid)

C36_Witness ==
    /\ reaper.pc # "idle"
    /\ \E i \in ReaperTurns :
          /\ reaper.calls[i].res.ok
          /\ reaper.calls[i].res.status = 256
          /\ reaper.calls[i].res.si_code = CLD_DUMPED
          /\ reaper.calls[i].call.cb = "on_child_termination"
          /\ reaper.calls[i].call.status = JobSignaled(255)

(***************************************************************************)
(* C37, C38: the handlers that only ask the cache or answer a question.     *)
(***************************************************************************)
\* clients with their jobs, workers with their pending sets, run queue and
\* heap are as before the handler
SchedulingUntouched(s) ==
    /\ ~s.panicked
    /\ s.clients = clients
    /\ s.workers = workers
    /\ s.queued_requests = queued_requests
    /\ s.worker_heap = worker_heap

\* what the cache holds for a digest: its path, or 0 for None
CachedPath(digest) == IF digest \in DOMAIN cache.entries THEN digest ELSE 0

C37GetPost(digest, sender, s) ==
    /\ SchedulingUntouched(s)
    /\ s.cache = cache
    /\ SelectSeq(s.msgs, LAMBDA m : m.kind # "CacheGetArtifactForWorker")
          = <<ToWorkerArtifactFetcher(sender, CachedPath(digest))>>
    /\ MsgsOfKind(s.msgs, "CacheGetArtifactForWorker")
          = <<CacheGetArtifactForWorker(digest)>>

C37DecrementPost(digest, s) ==
    /\ SchedulingUntouched(s)
    /\ s.msgs = <<CacheDecrementRefcount(digest)>>

\* C37: handling GetArtifactForWorker(d, reply) sends exactly one message,
\* on the reply sender, carrying what the cache returned for d (its path or
\* None), and handling DecrementRefcount(d) makes exactly one decrement call,
\* for d; both leave clients, jobs, workers' pending sets, run queue and heap
\* as they were and send nothing to a client or a worker.
C37_CacheRequestsTouchNothingElse ==
    /\ \A d \in Digests, reply \in FetcherIds :
          C37GetPost(d, reply, After(MsgGetArtifactForWorker(d, reply)))
    /\ \A d \in Digests :
          Arrives(MsgDecrementRefcount(d)) =>
              C37DecrementPost(d, After(MsgDecrementRefcount(d)))

\* a cached and an uncached digest while jobs are pending and queued
C37_Witness ==
    /\ \E d \in Digests : CachedPath(d) = d /\ cache.entries[d] > 0
    /\ \E d \in Digests : CachedPath(d) = 0
    /\ PendingAll(Cur) # {}
    /\ queued_requests # <<>>
    /\ Arrives(MsgDecrementRefcount(1))

C38Post(c, s) ==
    /\ SchedulingUntouched(s)
    /\ s.cache = cache
    /\ s.msgs = <<StatisticsResponse(c, Cardinality(DOMAIN clients),
                                     Cardinality(DOMAIN workers),
                                     Len(queued_requests))>>

\* C38: a statistics request from a connected client c is answered with
\* exactly one StatisticsResponse, to c, whose num_clients and num_workers
\* are the numbers of connected clients and workers and whose num_requests
\* is the length of the run queue, jobs pending on workers and jobs waiting
\* for artifacts not counted; the scheduler's state stays as it was.
C38_StatisticsCountTheRunQueue ==
    \A c \in DOMAIN clients : C38Post(c, After(MsgStatisticsRequest(c)))

\* two clients, a worker holding jobs, a queued job
C38_Witness ==
    /\ Cardinality(DOMAIN clients) = 2
    /\ workers # EmptyMap
    /\ PendingAll(Cur) # {}
    /\ queued_requests # <<>>

====
